---- MODULE Spec2Model ----
(***************************************************************************)
(* Digest ranking and summarisation engine of the canada-builds bot:       *)
(* ThreadFeatureExtractor, ThreadScoringService, ThemeClusterService and   *)
(* the extractive Summarizer, with the two caches they read                *)
(* (GuildFeatureConfigService, TopicService).                              *)
(*                                                                         *)
(* Representation.  A JavaScript string that the code inspects character   *)
(* by character (message content, keywords, bigrams, slugs, author names)  *)
(* is a sequence of one-character strings; identifiers that are only       *)
(* compared (message, channel, thread, author and guild ids) are TLA+      *)
(* strings.  A Map or Set, whose iteration order is its insertion order,   *)
(* is a sequence of entries.  A floating-point number is a fixed-point     *)
(* integer in units of 1/Milli (1/Micro inside the summarizer).            *)
(***************************************************************************)
EXTENDS Integers, Sequences, FiniteSets, TLC

\* null / undefined: of an object, and of a string identifier
Null == [null |-> TRUE]
NoId == "undefined"

Min2(a, b) == IF a <= b THEN a ELSE b
Max2(a, b) == IF a >= b THEN a ELSE b

RECURSIVE SumSeq(_)
SumSeq(s) == IF s = <<>> THEN 0 ELSE Head(s) + SumSeq(Tail(s))

RECURSIVE Flatten(_)
Flatten(ss) == IF ss = <<>> THEN <<>> ELSE Head(ss) \o Flatten(Tail(ss))

Range(s) == {s[i] : i \in 1..Len(s)}

\* Array.prototype.includes / Set.has on an insertion-ordered collection
Includes(s, x) == \E i \in 1..Len(s) : s[i] = x

\* Set.add: append unless present
SetAdd(s, x) == IF Includes(s, x) THEN s ELSE Append(s, x)

(***************************************************************************)
(* Characters and the regular expressions of the text pipeline             *)
(***************************************************************************)
LowerLetters == <<"a","b","c","d","e","f","g","h","i","j","k","l","m","n","o","p","q","r","s","t","u","v","w","x","y","z">>
UpperLetters == <<"A","B","C","D","E","F","G","H","I","J","K","L","M","N","O","P","Q","R","S","T","U","V","W","X","Y","Z">>
Lowers == Range(LowerLetters)
Digits == {"0","1","2","3","4","5","6","7","8","9"}
Spaces == {" ", "\n"}
TokenChars == Lowers \cup Digits \cup {"[", "]"}
SentenceDelims == {".", "!", "?"}

\* the backtick, and the two non-ASCII characters formatBullet writes: one character each
Backtick == "U+0060"
Bullet == "U+2022"
Ellipsis == "U+2026"

toLowerChar(c) == IF \E i \in 1..26 : UpperLetters[i] = c THEN LowerLetters[CHOOSE i \in 1..26 : UpperLetters[i] = c] ELSE c

toLowerCase(s) == [i \in 1..Len(s) |-> toLowerChar(s[i])]

\* character classes: \s, \S, \d, not-backtick, [^>], . (no newline), [a-z0-9\[\]]
charClass(cls, c) ==
  CASE cls = "space" -> c \in Spaces
    [] cls = "nonspace" -> c \notin Spaces
    [] cls = "digit" -> c \in Digits
    [] cls = "notBacktick" -> c # Backtick
    [] cls = "notGt" -> c # ">"
    [] cls = "notNewline" -> c # "\n"
    [] cls = "linkChar" -> c \notin Spaces \cup {")"}
    [] cls = "token" -> c \in TokenChars

\* the least j in i..Len(s) with P(j), or Len(s) + 1 when there is none (for i <= Len(s) + 1)
firstFrom(s, i, P(_)) == CHOOSE j \in i..(Len(s) + 1) : (j = Len(s) + 1 \/ P(j)) /\ \A k \in i..(j - 1) : ~P(k)

\* length of the longest run of characters of class cls starting at i (greedy X*)
runLength(s, i, cls) == IF i > Len(s) THEN 0 ELSE firstFrom(s, i, LAMBDA j : ~charClass(cls, s[j])) - i

startsWithAt(s, i, p) == i >= 1 /\ i + Len(p) - 1 <= Len(s) /\ \A k \in 1..Len(p) : s[i + k - 1] = p[k]

startsWithAtIgnoreCase(s, i, p) == i >= 1 /\ i + Len(p) - 1 <= Len(s) /\ \A k \in 1..Len(p) : toLowerChar(s[i + k - 1]) = p[k]

\* String.prototype.includes
includesText(s, p) == \E i \in 1..(Len(s) - Len(p) + 1) : startsWithAt(s, i, p)

endsWith(s, p) == Len(p) <= Len(s) /\ startsWithAt(s, Len(s) - Len(p) + 1, p)

\* first index >= i at which p occurs in s, 0 when there is none
indexOfFrom(s, i, p) ==
  IF i > Len(s) THEN 0
  ELSE LET j == firstFrom(s, i, LAMBDA k : startsWithAt(s, k, p)) IN IF j > Len(s) THEN 0 ELSE j

\* DECISION_REGEX / DECISION_VERB_REGEX: the alternatives, in the order the regex tries them
DecisionVerbs == <<
  <<"d","e","c","i","d","e">>,
  <<"d","e","c","i","d","e","d">>,
  <<"a","p","p","r","o","v","e">>,
  <<"a","p","p","r","o","v","e","d">>,
  <<"s","h","i","p">>,
  <<"s","h","i","p","p","i","n","g">>,
  <<"s","h","i","p","p","e","d">>,
  <<"b","l","o","c","k","e","d">>,
  <<"b","l","o","c","k","e","r">>,
  <<"e","t","a">>,
  <<"o","w","n","e","r">> >>

Fence == <<Backtick, Backtick, Backtick>>
Http == <<"h","t","t","p">>
SchemeSep == <<":","/","/">>

\* length of the match of one stripFormatting / normalize pattern at position i (0: no match)
matchLength(kind, s, i) ==
  CASE kind = "fence" ->
         IF s[i] = Backtick /\ startsWithAt(s, i, Fence)
         THEN LET close == indexOfFrom(s, i + 3, Fence) IN IF close = 0 THEN 0 ELSE close + 3 - i
         ELSE 0
    [] kind = "inline" ->
         IF s[i] = Backtick
         THEN LET n == runLength(s, i + 1, "notBacktick") IN IF n >= 1 /\ i + 1 + n <= Len(s) THEN n + 2 ELSE 0
         ELSE 0
    [] kind = "quote" ->
         IF s[i] = ">" /\ (i = 1 \/ s[i - 1] = "\n") THEN 1 + runLength(s, i + 1, "notNewline") ELSE 0
    [] kind = "url" ->
         IF toLowerChar(s[i]) = "h" /\ startsWithAtIgnoreCase(s, i, Http)
         THEN LET withS == i + 4 <= Len(s) /\ toLowerChar(s[i + 4]) = "s" /\ startsWithAt(s, i + 5, SchemeSep)
                  restS == runLength(s, i + 8, "nonspace")
                  rest == runLength(s, i + 7, "nonspace")
              IN  IF withS /\ restS >= 1 THEN 8 + restS
                  ELSE IF startsWithAt(s, i + 4, SchemeSep) /\ rest >= 1 THEN 7 + rest
                  ELSE 0
         ELSE 0
    [] kind = "mention" ->
         IF s[i] = "<" /\ startsWithAt(s, i, <<"<", "@">>)
         THEN LET k == IF i + 2 <= Len(s) /\ s[i + 2] = "!" THEN i + 3 ELSE i + 2
                  d == runLength(s, k, "digit")
              IN  IF d >= 1 /\ k + d <= Len(s) /\ s[k + d] = ">" THEN k + d + 1 - i ELSE 0
         ELSE 0
    [] kind = "channel" ->
         IF s[i] = "<" /\ startsWithAt(s, i, <<"<", "#">>)
         THEN LET n == runLength(s, i + 2, "notGt") IN IF n >= 1 /\ i + 2 + n <= Len(s) THEN n + 3 ELSE 0
         ELSE 0
    [] kind = "link" ->
         IF toLowerChar(s[i]) = "h" /\ startsWithAtIgnoreCase(s, i, Http)
         THEN LET withS == i + 4 <= Len(s) /\ toLowerChar(s[i + 4]) = "s" /\ startsWithAt(s, i + 5, SchemeSep)
                  restS == runLength(s, i + 8, "linkChar")
                  rest == runLength(s, i + 7, "linkChar")
              IN  IF withS /\ restS >= 1 THEN 8 + restS
                  ELSE IF startsWithAt(s, i + 4, SchemeSep) /\ rest >= 1 THEN 7 + rest
                  ELSE 0
         ELSE 0
    [] kind = "decisionVerb" ->
         LET hits == {v \in 1..Len(DecisionVerbs) : startsWithAtIgnoreCase(s, i, DecisionVerbs[v])}
         IN  IF hits = {} THEN 0 ELSE Len(DecisionVerbs[CHOOSE v \in hits : \A w \in hits : v <= w])

\* String.prototype.replace(/pattern/g, repl): leftmost matches, left to right
RECURSIVE replaceFrom(_, _, _, _)
replaceFrom(s, i, kind, repl) ==
  IF i > Len(s) THEN <<>>
  ELSE LET j == firstFrom(s, i, LAMBDA k : matchLength(kind, s, k) > 0)
       IN  IF j > Len(s) THEN SubSeq(s, i, Len(s))
           ELSE SubSeq(s, i, j - 1) \o repl \o replaceFrom(s, j + matchLength(kind, s, j), kind, repl)

replaceAll(s, kind, repl) == replaceFrom(s, 1, kind, repl)

\* number of matches of the pattern in s, as String.prototype.match with flag g finds them
RECURSIVE countMatchesFrom(_, _, _)
countMatchesFrom(s, i, kind) ==
  IF i > Len(s) THEN 0
  ELSE LET j == firstFrom(s, i, LAMBDA k : matchLength(kind, s, k) > 0)
       IN  IF j > Len(s) THEN 0 ELSE 1 + countMatchesFrom(s, j + matchLength(kind, s, j), kind)

\* replace(/\s+/g, ' '): a whitespace character is kept, as a blank, when it starts a run
collapseSpaces(s) ==
  LET kept == SelectSeq([i \in 1..Len(s) |-> i], LAMBDA i : s[i] \notin Spaces \/ i = 1 \/ s[i - 1] \notin Spaces)
  IN  [k \in 1..Len(kept) |-> IF s[kept[k]] \in Spaces THEN " " ELSE s[kept[k]]]

\* String.prototype.trim
trim(s) ==
  LET lead == runLength(s, 1, "space")
      last == CHOOSE j \in 0..Len(s) : (j = 0 \/ s[j] \notin Spaces) /\ \A k \in (j + 1)..Len(s) : s[k] \in Spaces
  IN  IF lead = Len(s) THEN <<>> ELSE SubSeq(s, lead + 1, last)

(***************************************************************************)
(* Fixed-point arithmetic                                                  *)
(***************************************************************************)
\* units of the doubles of the scoring service (1/Milli) and of the summarizer (1/Micro)
Milli == 1000
Micro == 1000000

\* Math.log(n) for n = 1..16, in units of 1/Micro
LnMicroTable == <<0, 693147, 1098612, 1386294, 1609438, 1791759, 1945910, 2079442, 2197225, 2302585, 2397895, 2484907, 2564949, 2639057, 2708050, 2772589>>
LnMicro(n) == LnMicroTable[n]

(***************************************************************************)
(* Array.prototype.sort with a comparator (b, a) => b.key - a.key: a stable *)
(* sort into non-increasing key order.  Entries are [key, item] records.   *)
(***************************************************************************)
RECURSIVE insertDescending(_, _)
insertDescending(sorted, e) ==
  IF sorted = <<>> THEN <<e>>
  ELSE IF Head(sorted).key >= e.key THEN <<Head(sorted)>> \o insertDescending(Tail(sorted), e)
  ELSE <<e>> \o sorted

RECURSIVE sortDescendingFrom(_, _, _)
sortDescendingFrom(entries, i, sorted) ==
  IF i > Len(entries) THEN sorted ELSE sortDescendingFrom(entries, i + 1, insertDescending(sorted, entries[i]))

sortDescending(entries) == sortDescendingFrom(entries, 1, <<>>)

\* (a, b) => a - b on numbers
RECURSIVE insertAscending(_, _)
insertAscending(sorted, x) ==
  IF sorted = <<>> THEN <<x>>
  ELSE IF Head(sorted) <= x THEN <<Head(sorted)>> \o insertAscending(Tail(sorted), x)
  ELSE <<x>> \o sorted

RECURSIVE sortAscending(_)
sortAscending(s) == IF s = <<>> THEN <<>> ELSE insertAscending(sortAscending(SubSeq(s, 1, Len(s) - 1)), s[Len(s)])

(***************************************************************************)
(* TopicService: the cache is a Map slug -> topic, in insertion order      *)
(***************************************************************************)
topicIndex(cache, slug) == IF \E i \in 1..Len(cache) : cache[i].slug = slug THEN CHOOSE i \in 1..Len(cache) : cache[i].slug = slug ELSE 0

\* Map.set(slug, topic): replace in place, or append
topicCacheSet(cache, topic) ==
  LET i == topicIndex(cache, topic.slug)
  IN  IF i = 0 THEN Append(cache, topic) ELSE [cache EXCEPT ![i] = topic]

topicCacheDelete(cache, slug) == SelectSeq(cache, LAMBDA t : t.slug # slug)

topicList(cache) == cache

\* create: upsert under the lower-cased slug, then cache.set
topicCreate(cache, topic) == topicCacheSet(cache, [topic EXCEPT !.slug = toLowerCase(topic.slug)])

\* remove: findOneAndDelete under the lower-cased slug, then cache.delete when a document was found
topicRemove(cache, slug) ==
  IF topicIndex(cache, toLowerCase(slug)) = 0 THEN cache ELSE topicCacheDelete(cache, toLowerCase(slug))

topicFind(cache, slug) ==
  LET i == topicIndex(cache, toLowerCase(slug))
  IN  IF i = 0 THEN Null ELSE cache[i]

\* object?.field ?? []: a property the object does not have is a field the record does not have
orEmpty(object, field) == IF object # Null /\ field \in DOMAIN object THEN object[field] ELSE <<>>

(***************************************************************************)
(* Summarizer                                                              *)
(***************************************************************************)
MaxItems == 4
CharacterLimit == 380
BulletPreviewLimit == 180
BulletPreviewKeep == 177
FallbackMessages == 3
MinTokenLength == 2
MaxTokenLength == 24
EarlySentenceIndex == 2

NoDiscussion == <<"N","o"," ","n","o","t","a","b","l","e"," ","d","i","s","c","u","s","s","i","o","n"," ","c","a","p","t","u","r","e","d"," ","i","n"," ","t","h","i","s"," ","w","i","n","d","o","w",".">>

LinkPlaceholder == <<"[","l","i","n","k","]">>

stopwords == {
    <<"a">>, <<"a","b","o","u","t">>, <<"a","f","t","e","r">>, <<"a","g","a","i","n">>,
    <<"a","g","a","i","n","s","t">>, <<"a","l","l">>, <<"a","m">>, <<"a","n">>, <<"a","n","d">>,
    <<"a","n","y">>, <<"a","r","e">>, <<"a","s">>, <<"a","t">>, <<"b","e">>,
    <<"b","e","c","a","u","s","e">>, <<"b","e","e","n">>, <<"b","e","f","o","r","e">>,
    <<"b","e","i","n","g">>, <<"b","e","l","o","w">>, <<"b","e","t","w","e","e","n">>,
    <<"b","o","t","h">>, <<"b","u","t">>, <<"b","y">>, <<"c","a","n">>, <<"d","i","d">>,
    <<"d","o">>, <<"d","o","e","s">>, <<"d","o","i","n","g">>, <<"d","o","w","n">>,
    <<"d","u","r","i","n","g">>, <<"e","a","c","h">>, <<"f","e","w">>, <<"f","o","r">>,
    <<"f","r","o","m">>, <<"f","u","r","t","h","e","r">>, <<"h","a","d">>, <<"h","a","s">>,
    <<"h","a","v","e">>, <<"h","a","v","i","n","g">>, <<"h","e">>, <<"h","e","r">>,
    <<"h","e","r","e">>, <<"h","e","r","s">>, <<"h","e","r","s","e","l","f">>, <<"h","i","m">>,
    <<"h","i","m","s","e","l","f">>, <<"h","i","s">>, <<"h","o","w">>, <<"i">>, <<"i","f">>,
    <<"i","n">>, <<"i","n","t","o">>, <<"i","s">>, <<"i","t">>, <<"i","t","s">>,
    <<"i","t","s","e","l","f">>, <<"j","u","s","t">>, <<"m","e">>, <<"m","o","r","e">>,
    <<"m","o","s","t">>, <<"m","y">>, <<"m","y","s","e","l","f">>, <<"n","o">>, <<"n","o","r">>,
    <<"n","o","t">>, <<"n","o","w">>, <<"o","f">>, <<"o","f","f">>, <<"o","n">>,
    <<"o","n","c","e">>, <<"o","n","l","y">>, <<"o","r">>, <<"o","t","h","e","r">>,
    <<"o","u","r">>, <<"o","u","r","s">>, <<"o","u","r","s","e","l","v","e","s">>, <<"o","u","t">>,
    <<"o","v","e","r">>, <<"o","w","n">>, <<"s","a","m","e">>, <<"s","h","e">>,
    <<"s","h","o","u","l","d">>, <<"s","o">>, <<"s","o","m","e">>, <<"s","u","c","h">>,
    <<"t","h","a","n">>, <<"t","h","a","t">>, <<"t","h","e">>, <<"t","h","e","i","r">>,
    <<"t","h","e","i","r","s">>, <<"t","h","e","m">>, <<"t","h","e","m","s","e","l","v","e","s">>,
    <<"t","h","e","n">>, <<"t","h","e","r","e">>, <<"t","h","e","s","e">>, <<"t","h","e","y">>,
    <<"t","h","i","s">>, <<"t","h","o","s","e">>, <<"t","h","r","o","u","g","h">>, <<"t","o">>,
    <<"t","o","o">>, <<"u","n","d","e","r">>, <<"u","n","t","i","l">>, <<"u","p">>,
    <<"v","e","r","y">>, <<"w","a","s">>, <<"w","e">>, <<"w","e","r","e">>, <<"w","h","a","t">>,
    <<"w","h","e","n">>, <<"w","h","e","r","e">>, <<"w","h","i","c","h">>, <<"w","h","i","l","e">>,
    <<"w","h","o">>, <<"w","h","o","m">>, <<"w","h","y">>, <<"w","i","t","h">>, <<"y","o","u">>,
    <<"y","o","u","r">>, <<"y","o","u","r","s">>, <<"y","o","u","r","s","e","l","f">>,
    <<"y","o","u","r","s","e","l","v","e","s">>, <<"a","i">>, <<"c","a","n","a","d","a">>,
    <<"b","u","i","l","d","s">>, <<"p","r","o","j","e","c","t">>, <<"t","e","a","m">> }

\* an empty result that names no summary sentence
emptyResultBlank == [summary |-> <<>>, tokensUsed |-> [input |-> 0, output |-> 0], cost |-> 0, selectedIds |-> <<>>]

emptyResult == [summary |-> NoDiscussion, tokensUsed |-> [input |-> 0, output |-> 0], cost |-> 0, selectedIds |-> <<>>]

\* the replacements of stripFormatting, in the order they are applied
StripPatterns == <<
  [kind |-> "fence", repl |-> <<" ">>],
  [kind |-> "inline", repl |-> <<" ">>],
  [kind |-> "quote", repl |-> <<" ">>],
  [kind |-> "url", repl |-> <<" ">> \o LinkPlaceholder \o <<" ">>],
  [kind |-> "mention", repl |-> <<" ","m","e","m","b","e","r"," ">>],
  [kind |-> "channel", repl |-> <<" ","c","h","a","n","n","e","l"," ">>] >>

RECURSIVE replaceEach(_, _, _)
replaceEach(s, patterns, k) ==
  IF k > Len(patterns) THEN s
  ELSE replaceEach(replaceAll(s, patterns[k].kind, patterns[k].repl), patterns, k + 1)

stripFormatting(content) == trim(collapseSpaces(replaceEach(content, StripPatterns, 1)))

\* the buffer is pushed, trimmed, at each delimiter, and what is left at the end
RECURSIVE splitSentencesFrom(_, _)
splitSentencesFrom(s, start) ==
  LET piece(to) == LET trimmed == trim(SubSeq(s, start, to)) IN IF Len(trimmed) > 0 THEN <<trimmed>> ELSE <<>>
  IN  IF start > Len(s) THEN <<>>
      ELSE LET i == firstFrom(s, start, LAMBDA k : s[k] \in SentenceDelims)
           IN  IF i > Len(s) THEN piece(Len(s)) ELSE piece(i) \o splitSentencesFrom(s, i + 1)

splitSentences(content) == splitSentencesFrom(content, 1)

normalize(text) ==
  LET clean(lowered) == [i \in 1..Len(lowered) |-> IF lowered[i] \in TokenChars \cup Spaces THEN lowered[i] ELSE " "]
  IN  trim(collapseSpaces(clean(toLowerCase(text))))

\* split(/[^a-z0-9\[\]]+/).filter(Boolean)
RECURSIVE tokenizeFrom(_, _)
tokenizeFrom(s, i) ==
  IF i > Len(s) THEN <<>>
  ELSE LET start == firstFrom(s, i, LAMBDA k : s[k] \in TokenChars)
           n == runLength(s, start, "token")
       IN  IF start > Len(s) THEN <<>> ELSE <<SubSeq(s, start, start + n - 1)>> \o tokenizeFrom(s, start + n)

tokenize(text) == tokenizeFrom(text, 1)

stem(token) ==
  IF Len(token) <= 4 THEN token
  ELSE IF endsWith(token, <<"i","n","g">>) \/ endsWith(token, <<"e","r","s">>) THEN SubSeq(token, 1, Len(token) - 3)
  ELSE IF endsWith(token, <<"e","d">>) \/ endsWith(token, <<"e","s">>) THEN SubSeq(token, 1, Len(token) - 2)
  ELSE IF endsWith(token, <<"s">>) /\ Len(token) > 3 THEN SubSeq(token, 1, Len(token) - 1)
  ELSE token

buildNgrams(tokens) ==
  [i \in 1..Max2(0, Len(tokens) - 1) |-> tokens[i] \o <<"_">> \o tokens[i + 1]]
  \o [i \in 1..Max2(0, Len(tokens) - 2) |-> tokens[i] \o <<"_">> \o tokens[i + 1] \o <<"_">> \o tokens[i + 2]]

\* the SentenceDoc of one sentence of a message, or Null when the sentence is skipped
sentenceDoc(message, sentence) ==
  LET keep(tokens) == SelectSeq(tokens, LAMBDA t : Len(t) >= MinTokenLength /\ Len(t) <= MaxTokenLength /\ t \notin stopwords)
      stemAll(raw) == [i \in 1..Len(raw) |-> stem(raw[i])]
      doc(normalized, filtered, ngrams, combined) ==
        IF normalized = <<>> \/ combined = <<>> THEN Null
        ELSE [id |-> message.id,
              author |-> message.authorUsername,
              original |-> trim(sentence),
              normalized |-> normalized,
              tokens |-> filtered,
              ngrams |-> ngrams,
              tf |-> [t \in Range(combined) |-> Cardinality({i \in 1..Len(combined) : combined[i] = t})],
              uniqueTokens |-> Range(combined),
              length |-> Len(combined),
              position |-> 0,
              timestamp |-> message.timestamp]
      fromTokens(normalized, filtered) == doc(normalized, filtered, buildNgrams(filtered), filtered \o buildNgrams(filtered))
      fromNormalized(normalized) == fromTokens(normalized, keep(stemAll(tokenize(normalized))))
  IN  fromNormalized(normalize(sentence))

messageDocs(message) ==
  LET docsOf(sentences) ==
        SelectSeq([i \in 1..Len(sentences) |-> sentenceDoc(message, sentences[i])], LAMBDA d : d # Null)
  IN  docsOf(splitSentences(stripFormatting(message.content)))

SummaryMessages == <<
  [id |-> "s1", authorUsername |-> <<"a","l","i","c","e">>, timestamp |-> 10,
   content |-> <<"G","r","i","d"," ","p","e","r","m","i","t"," ","a","p","p","r","o","v","e","d","."," ","S","h","i","p"," ","i","t"," ","b","y"," ","Q","3","!">>],
  [id |-> "s2", authorUsername |-> <<"b","o","b">>, timestamp |-> 20,
   content |-> <<"T","h","e"," ","p","o","l","i","c","y"," ","i","s"," ","o","k">>],
  [id |-> "s3", authorUsername |-> <<"a","l","i","c","e">>, timestamp |-> 30,
   content |-> <<"S","e","e"," ","h","t","t","p","s",":","/","/","x",".","c","a","/","a"," ","f","o","r"," ","g","r","i","d"," ","p","o","w","e","r"," ","p","u","r","c","h","a","s","e">>],
  [id |-> "s4", authorUsername |-> <<"c","a","r","o","l">>, timestamp |-> 40,
   content |-> <<">","g","r","i","d"," ","i","s"," ",Backtick,"i","t",Backtick>>],
  [id |-> "s5", authorUsername |-> <<"c","a","r","o","l">>, timestamp |-> 50,
   content |-> <<"P","e","r","m","i","t"," ","-","-","-","-","-","-","-","-","-","-","-","-","-","-","-","-","-","-","-","-","-","-","-","-","-","-","-","-","-","-","-","-","-","-","-","-","-","-","-","-","-","-","-","-","-","-","-","-","-","-","-","-","-","-","-","-","-","-","-","-","-","-","-","-","-","-","-","-","-","-","-","-","-","-","-","-","-","-","-","-","-","-","-","-","-","-","-","-","-","-","-","-","-","-","-","-","-","-","-","-","-","-","-","-","-","-","-","-","-","-","-","-","-","-","-","-","-","-","-","-","-","-","-","-","-","-","-","-","-","-","-","-","-","-","-","-","-","-","-","-","-","-","-","-","-","-","-","-","-","-","-","-","-","-","-","-","-","-","-","-","-","-","-","-","-","-","-","-","-","-","-","-","-","-","-","-","-","-","-","-","-","-","-","-","-","-","-","-","-","-","-","-","-">>],
  [id |-> "s6", authorUsername |-> <<"b","o","b">>, timestamp |-> 60,
   content |-> <<"H","y","d","r","o","?"," "," ","=","=","=","=","=","=","=","=","=","=","=","=","=","=","=","=","=","=","=","=","=","=","=","=","=","=","=","=","=","=","=","=","=","=","=","=","=","=","=","=","=","=","=","=","=","=","=","=","=","=","=","=","=","=","=","=","=","=","=","=","=","=","=","=","=","=","=","=","=","=","=","=","=","=","=","=","=","=","=","=","=","=","=","=","=","=","=","=","=","=","=","=","=","=","=","=","=","=","=","=","=","=","=","=","=","=","=","=","=","=","=","=","=","=","=","=","=","=","=","=","=","=","=","=","=","=","=","=","=","=","=","=","=","=","=","=","=","=","=","=","=","=","=","=","=","=","=","=","=","=","=","=","=","=","=","=","=","=","=","=","=","=","=","=","=","=","=","=","=","=","=","=","=","=","=","=","=","=","\n","t","h","e"," ","e","n","d"," ","2",".">>],
  [id |-> "s7", authorUsername |-> <<"d","a","v","e">>, timestamp |-> 70,
   content |-> <<"T","r","a","n","s","i","t"," ","~","~","~","~","~","~","~","~","~","~","~","~","~","~","~","~","~","~","~","~","~","~","~","~","~","~","~","~","~","~","~","~","~","~","~","~","~","~","~","~","~","~","~","~","~","~","~","~","~","~","~","~","~","~","~","~","~","~","~","~","~","~","~","~","~","~","~","~","~","~","~","~","~","~","~","~","~","~","~","~","~","~","~","~","~","~","~","~","~","~","~","~","~","~","~","~","~","~","~","~","~","~","~","~","~","~","~","~","~","~","~","~","~","~","~","~","~","~","~","~","~","~","~","~","~","~","~","~","~","~","~","~","~","~","~","~","~","~","~","~","~","~","~","~","~","~","~","~","~","~","~","~","~","~","~","~","~","~","~","~","~","~","~","~","~","~","~","~","~","~","~","~","~","~","~","~","~","~","~","~","~","~","~","~","~","~","~","~","~","~","~","~","~","~","~","~","~","~","~","~","~","~","~","~","~","~","~","~","~","~","~","~","~","~","~","~","~","~","~","~","~","~","~","~","~","~","~","~","~","~","~","~","~","~","~","~","~","~","~","~","~","~","~","~","~","~","~","~","~","~","~","~","~","~","~","~","~","~","~","~","~","~","~","~","~","~","~","~","~","~","~","~","~","~","~","~","~","~","~","~","~","~","~","~","~","~","~","~","~","~","~","~","~","~","~","~","~","~","~","~","~","~","~","~","~","~","~","~","~","~","~","~","~","~","~","~","~","~","~","~","~","~","~","~","~","~","~","~","~","~","~","~","~","~","~","~","~","~","~","~","~","~","~","~","~","~","~","~","~","~","~","~","~","~","~","~","~","~","~","~","~","~","~","~","~","~","~","~","~","~","~","~","~","~","~","~","~","~","~","~","~","~">>],
  [id |-> "s8", authorUsername |-> <<"e","v","e">>, timestamp |-> 80,
   content |-> <<"W","i","n","d"," ","f","a","r","m"," ","p","a","u","s","e","d","."," ","G","r","i","d"," ","l","o","a","d"," ","5"," ","M","W","."," ","G","r","i","d"," ","l","o","a","d"," ","5"," ","M","W","."," ","H","y","d","r","o"," ","p","l","a","n"," ","d","r","a","f","t","e","d","."," ","S","o","l","a","r"," ","r","o","o","f"," ","f","u","n","d","e","d",".">>]>>

\* The sentence docs of a message depend on the message alone: those of the messages of
\* SummaryMessages are computed once and looked up, any other message is split on the spot.
SummaryMessageDocs == {[message |-> m, docs |-> messageDocs(m)] : m \in Range(SummaryMessages)}

sentenceDocsOf(message) ==
  IF \E known \in SummaryMessageDocs : known.message = message
  THEN (CHOOSE known \in SummaryMessageDocs : known.message = message).docs
  ELSE messageDocs(message)

buildSentenceDocs(messages) ==
  LET renumber(docs) == [i \in 1..Len(docs) |-> [docs[i] EXCEPT !.position = i - 1]]
  IN  renumber(Flatten([m \in 1..Len(messages) |-> sentenceDocsOf(messages[m])]))

buildDocumentFrequency(docs) ==
  [t \in UNION {docs[i].uniqueTokens : i \in 1..Len(docs)} |-> Cardinality({i \in 1..Len(docs) : t \in docs[i].uniqueTokens})]

buildTopicTokens(keywords, bigrams, topic) ==
  LET entries == keywords \o bigrams \o <<topic>>
  IN  UNION {{stem(t) : t \in Range(tokenize(toLowerCase(entries[i])))} : i \in 1..Len(entries)}

\* index is the 0-based array index of the sentence, as in the code
computeSentenceScore(doc, docFreq, totalDocs, topicTokens, index, total) ==
  LET term(t) ==
        LET idf == LnMicro(totalDocs + 1) - LnMicro(docFreq[t] + 1) + Micro
            topicBoost == IF t \in topicTokens THEN 12 ELSE 10
        IN  (doc.tf[t] * idf * topicBoost) \div (doc.length * 10)
      RECURSIVE sumTerms(_)
      sumTerms(ts) == IF ts = {} THEN 0 ELSE LET t == CHOOSE x \in ts : TRUE IN term(t) + sumTerms(ts \ {t})
      hasDecision == \E i \in 1..Len(doc.normalized) : matchLength("decisionVerb", doc.normalized, i) > 0
  IN  sumTerms(DOMAIN doc.tf)
      + (IF index <= EarlySentenceIndex THEN 200000 ELSE 0)
      + (IF hasDecision THEN 600000 + (IF index >= total - 2 THEN 300000 ELSE 0) ELSE 0)
      + (IF \E i \in 1..Len(doc.original) : doc.original[i] \in Digits THEN 200000 ELSE 0)
      + (IF includesText(doc.normalized, LinkPlaceholder) THEN 200000 ELSE 0)

\* Jaccard similarity to the most similar of the others, in units of 1/Micro
maxSimilarity(doc, others) ==
  LET similarity(o) ==
        LET overlap == Cardinality(doc.uniqueTokens \cap o.uniqueTokens)
            union == Cardinality(doc.uniqueTokens \cup o.uniqueTokens)
        IN  (overlap * Micro) \div (IF union = 0 THEN 1 ELSE union)
      all == {similarity(others[i]) : i \in 1..Len(others)}
  IN  IF others = <<>> THEN 0 ELSE CHOOSE m \in all : \A x \in all : x <= m

\* value of lambda * relevance - (1 - lambda) * redundancy, in units of 1/(100 * Micro)
mmrValue(docs, scores, selected, candidate) ==
  72 * scores[candidate] - 28 * maxSimilarity(docs[candidate], [k \in 1..Len(selected) |-> docs[selected[k]]])

\* a round that takes the candidate of the highest raw score, whatever its redundancy
pickFirst(docs, scores, selected, candidates) == candidates[1]

\* the candidate one round of the while loop picks: the first of candidates with the largest mmr
pickBest(docs, scores, selected, candidates) ==
  LET mmr(c) == mmrValue(docs, scores, selected, c)
  IN  candidates[CHOOSE i \in 1..Len(candidates) :
        /\ \A j \in 1..Len(candidates) : mmr(candidates[j]) <= mmr(candidates[i])
        /\ \A j \in 1..(i - 1) : mmr(candidates[j]) < mmr(candidates[i])]

RECURSIVE mmrLoop(_, _, _, _, _)
mmrLoop(docs, scores, candidates, selected, maxItems) ==
  IF Len(candidates) > 0 /\ Len(selected) < maxItems
  THEN LET bestIndex == pickBest(docs, scores, selected, candidates)
       IN  mmrLoop(docs, scores, SelectSeq(candidates, LAMBDA c : c # bestIndex), Append(selected, bestIndex), maxItems)
  ELSE selected

\* indices are 1-based positions in docs
selectByMMR(docs, scores, maxItems) ==
  LET ranked == sortDescending([i \in 1..Len(scores) |-> [key |-> scores[i], item |-> i]])
      candidates == [i \in 1..Len(ranked) |-> ranked[i].item]
  IN  sortAscending(mmrLoop(docs, scores, candidates, <<>>, maxItems))

RECURSIVE enforceFrom(_, _, _, _, _, _)
enforceFrom(docs, selected, limit, k, chosen, total) ==
  IF k > Len(selected) THEN chosen
  ELSE LET candidate == docs[selected[k]]
           projected == total + Len(candidate.original)
       IN  IF Len(chosen) >= MaxItems THEN chosen
           ELSE IF projected > limit /\ Len(chosen) > 0 THEN chosen
           ELSE enforceFrom(docs, selected, limit, k + 1, Append(chosen, candidate), projected)

\* a selection that is kept whole, whatever its length
enforceNoLimit(docs, selected, limit) == [k \in 1..Min2(MaxItems, Len(selected)) |-> docs[selected[k]]]

\* a loop that passes over a sentence that does not fit and goes on with the next
RECURSIVE skipFrom(_, _, _, _, _, _)
skipFrom(docs, selected, limit, k, chosen, total) ==
  IF k > Len(selected) \/ Len(chosen) >= MaxItems THEN chosen
  ELSE IF total + Len(docs[selected[k]].original) > limit /\ Len(chosen) > 0
       THEN skipFrom(docs, selected, limit, k + 1, chosen, total)
       ELSE skipFrom(docs, selected, limit, k + 1, Append(chosen, docs[selected[k]]), total + Len(docs[selected[k]].original))

enforceSkipping(docs, selected, limit) == skipFrom(docs, selected, limit, 1, <<>>, 0)

enforceCharacterLimit(docs, selected, limit) == enforceFrom(docs, selected, limit, 1, <<>>, 0)

formatBullet(sentence, author) ==
  LET trimmed == trim(collapseSpaces(sentence))
      preview == IF Len(trimmed) > BulletPreviewLimit THEN SubSeq(trimmed, 1, BulletPreviewKeep) \o <<Ellipsis>> ELSE trimmed
  IN  <<Bullet, " ">> \o author \o <<":", " ">> \o preview

\* Array.prototype.join('\n')
RECURSIVE joinLines(_)
joinLines(lines) ==
  IF lines = <<>> THEN <<>>
  ELSE IF Len(lines) = 1 THEN lines[1]
  ELSE lines[1] \o <<"\n">> \o joinLines(Tail(lines))

\* a summary that lists each source message once, however many of its sentences are used
formatSummaryUniqueIds(sentences) ==
  LET bullets == [i \in 1..Len(sentences) |-> formatBullet(sentences[i].original, sentences[i].author)]
      first == SelectSeq([i \in 1..Len(sentences) |-> i], LAMBDA i : \A j \in 1..(i - 1) : sentences[j].id # sentences[i].id)
  IN  [summary |-> IF joinLines(bullets) = <<>> THEN NoDiscussion ELSE joinLines(bullets),
       tokensUsed |-> [input |-> 0, output |-> 0],
       cost |-> 0,
       selectedIds |-> [k \in 1..Len(first) |-> sentences[first[k]].id]]

formatSummary(sentences) ==
  LET bullets == [i \in 1..Len(sentences) |-> formatBullet(sentences[i].original, sentences[i].author)]
      joined == joinLines(bullets)
  IN  [summary |-> IF joined = <<>> THEN NoDiscussion ELSE joined,
       tokensUsed |-> [input |-> 0, output |-> 0],
       cost |-> 0,
       selectedIds |-> [i \in 1..Len(sentences) |-> sentences[i].id]]

fallback(messages) ==
  LET top == SubSeq(messages, 1, Min2(FallbackMessages, Len(messages)))
      bullets == [i \in 1..Len(top) |-> formatBullet(top[i].content, top[i].authorUsername)]
      joined == joinLines(bullets)
  IN  [summary |-> IF joined = <<>> THEN NoDiscussion ELSE joined,
       tokensUsed |-> [input |-> 0, output |-> 0],
       cost |-> 0,
       selectedIds |-> [i \in 1..Len(top) |-> top[i].id]]

\* a summarizer that boosts the tokens of every cached topic, not of the topic it is called for
summarizeStepsAllTopics(messages, topic, cache) ==
  LET tokensOf(topics) ==
        buildTopicTokens(Flatten([t \in 1..Len(topics) |-> topics[t].keywords]),
                         Flatten([t \in 1..Len(topics) |-> topics[t].bigrams]),
                         topic)
      scoresOf(sentences, docFreq, topicTokens) ==
        [i \in 1..Len(sentences) |->
           computeSentenceScore(sentences[i], docFreq, Len(sentences), topicTokens, i - 1, Len(sentences))]
      steps(sentences, scores, selected) ==
        [sentences |-> sentences,
         scores |-> scores,
         selected |-> selected,
         capped |-> enforceCharacterLimit(sentences, selected, CharacterLimit)]
      select(sentences, scores) == steps(sentences, scores, selectByMMR(sentences, scores, MaxItems))
      score(sentences) ==
        select(sentences, scoresOf(sentences, buildDocumentFrequency(sentences), tokensOf(topicList(cache))))
  IN  score(buildSentenceDocs(messages))

\* what summarize computes on the way: the sentence docs, the MMR selection and the
\* sentences kept by enforceCharacterLimit
summarizeSteps(messages, topic, cache) ==
  LET tokensOf(topicInfo) ==
        buildTopicTokens(orEmpty(topicInfo, "keywords"),
                         orEmpty(topicInfo, "bigrams"),
                         topic)
      scoresOf(sentences, docFreq, topicTokens) ==
        [i \in 1..Len(sentences) |->
           computeSentenceScore(sentences[i], docFreq, Len(sentences), topicTokens, i - 1, Len(sentences))]
      steps(sentences, scores, selected) ==
        [sentences |-> sentences,
         scores |-> scores,
         selected |-> selected,
         capped |-> enforceCharacterLimit(sentences, selected, CharacterLimit)]
      select(sentences, scores) == steps(sentences, scores, selectByMMR(sentences, scores, MaxItems))
      score(sentences) ==
        select(sentences, scoresOf(sentences, buildDocumentFrequency(sentences), tokensOf(topicFind(cache, topic))))
  IN  score(buildSentenceDocs(messages))

summarize(messages, topic, cache) ==
  LET finish(steps) ==
        IF Len(steps.sentences) = 0 THEN emptyResult
        ELSE IF Len(steps.selected) = 0 THEN fallback(messages)
        ELSE formatSummary(steps.capped)
  IN  IF Len(messages) = 0 THEN emptyResult ELSE finish(summarizeSteps(messages, topic, cache))

(***************************************************************************)
(* GuildFeatureConfigService: the GuildFeatureConfig collection (store) and *)
(* the service's cache, both guild -> document or Null.  channelMultipliers *)
(* is a function whose domain is the set of channels that have a            *)
(* multiplier, with values in units of 1/Milli.  A weight argument is a     *)
(* record [finite, value]: NaN and +-Infinity are the weights that are not  *)
(* finite.                                                                  *)
(***************************************************************************)
DefaultMultiplier == 1000
MinMultiplier == 0
MaxMultiplier == 5000

\* GuildFeatureConfig.create({guildId}): the schema's default channelMultipliers is {}
defaultConfig == [channelMultipliers |-> <<>>]

getChannelMultiplier(cache, guildId, channelId) ==
  LET config == cache[guildId]
  IN  IF config = Null THEN DefaultMultiplier
      ELSE IF channelId \in DOMAIN config.channelMultipliers THEN config.channelMultipliers[channelId]
      ELSE DefaultMultiplier

sanitizeWeightUnclamped(weight) == IF weight.finite THEN weight.value ELSE DefaultMultiplier

sanitizeWeight(weight) == Max2(MinMultiplier, Min2(MaxMultiplier, IF weight.finite THEN weight.value ELSE DefaultMultiplier))

\* cache.set(guildId, document)
cacheSet(cache, guildId, document) == [cache EXCEPT ![guildId] = document]

\* initialize / refresh: findOne({guildId}), or create({guildId}) when there is no document
configInitialize(store, guildId) ==
  IF store[guildId] # Null THEN store ELSE [store EXCEPT ![guildId] = defaultConfig]

\* findOneAndUpdate({guildId}, {$set: {channelMultipliers.<channelId>: w}}, {upsert, new}) on the collection
setChannelMultiplier(store, guildId, channelId, weight) ==
  LET old == IF store[guildId] = Null THEN <<>> ELSE store[guildId].channelMultipliers
      new == [c \in DOMAIN old \cup {channelId} |-> IF c = channelId THEN sanitizeWeight(weight) ELSE old[c]]
  IN  [store EXCEPT ![guildId] = [channelMultipliers |-> new]]

\* findOneAndUpdate({guildId}, {$unset: ...}, {new}) without upsert: no document, nothing updated
clearChannelMultiplier(store, guildId, channelId) ==
  IF store[guildId] = Null THEN store
  ELSE LET old == store[guildId].channelMultipliers
       IN  [store EXCEPT ![guildId] = [channelMultipliers |-> [c \in DOMAIN old \ {channelId} |-> old[c]]]]

\* listChannelMultipliers: the cached document's map, or the one refresh loads or creates
listChannelMultipliers(store, cache, guildId) ==
  IF cache[guildId] # Null THEN cache[guildId].channelMultipliers
  ELSE configInitialize(store, guildId)[guildId].channelMultipliers

\* the reduce of updateChannelMultipliers: an empty channel id is skipped, each weight bounded
sanitizeMultipliers(multipliers) ==
  [c \in DOMAIN multipliers \ {""} |-> sanitizeWeight(multipliers[c])]

\* updateChannelMultipliers: {...existing, ...sanitized} written whole with upsert
updateChannelMultipliers(store, cache, guildId, multipliers) ==
  LET merge(existing, sanitized) ==
        [c \in DOMAIN existing \cup DOMAIN sanitized |->
           IF c \in DOMAIN sanitized THEN sanitized[c] ELSE existing[c]]
  IN  [store EXCEPT ![guildId] =
         [channelMultipliers |-> merge(listChannelMultipliers(store, cache, guildId), sanitizeMultipliers(multipliers))]]

(***************************************************************************)
(* MessageIndexer: the stored fields the feature extractor reads           *)
(***************************************************************************)
wordOrSpace(c) == c \in Lowers \cup Digits \cup {"_"} \cup Spaces

normalizeContent(content) ==
  LET lowered == toLowerCase(content)
      cleaned == [i \in 1..Len(lowered) |-> IF wordOrSpace(lowered[i]) THEN lowered[i] ELSE " "]
  IN  trim(collapseSpaces(cleaned))

findMatchedKeywords(normalizedContent, allKeywords) == SelectSeq(allKeywords, LAMBDA k : includesText(normalizedContent, k))

\* content.match(/https?:\/\/[^\s)]+/gi)?.length ?? 0
countLinks(content) == countMatchesFrom(content, 1, "link")

\* the document Message.create stores for a Discord message (thread context resolved)
indexMessage(message, allKeywords) ==
  LET normalizedContent == normalizeContent(message.content)
  IN  [messageId |-> message.id,
       guildId |-> message.guildId,
       channelId |-> message.channelId,
       threadId |-> IF message.isThread THEN message.channelId ELSE NoId,
       parentChannelId |-> IF message.isThread THEN message.parentId ELSE message.channelId,
       authorId |-> message.authorId,
       authorUsername |-> message.authorUsername,
       content |-> message.content,
       normalizedContent |-> normalizedContent,
       matchedKeywords |-> findMatchedKeywords(normalizedContent, allKeywords),
       linkCount |-> countLinks(message.content),
       reactionSummary |-> message.reactions,
       timestamp |-> message.createdAt]

(***************************************************************************)
(* ThreadFeatureExtractor                                                  *)
(***************************************************************************)
DefaultLimit == 500
LinkThreshold == 2

\* REACTION_WEIGHTS, in units of 1/Milli; an emoji is named by its short code
reactionWeight(emoji) ==
  CASE emoji \in {"thumbsup", "white_check_mark", "fire"} -> 2000
    [] emoji \in {"bulb", "heart", "tada"} -> 1500
    [] emoji = "joy" -> 750
    [] OTHER -> 1000

calculateReactionWeight(summary) == SumSeq([i \in 1..Len(summary) |-> reactionWeight(summary[i].emoji) * summary[i].count])

\* content.match(DECISION_VERB_REGEX)?.length ?? 0 (flags g and i)
countDecisionVerbs(content) == countMatchesFrom(content, 1, "decisionVerb")

toSummaryMessage(doc) ==
  [id |-> doc.messageId, authorUsername |-> doc.authorUsername, content |-> doc.content, timestamp |-> doc.timestamp]

\* a grouping key that puts a thread under its parent channel
docKeyByParent(doc) == doc.parentChannelId

docKey(doc) == IF doc.threadId # NoId THEN doc.threadId ELSE doc.channelId

\* an accumulator that already counts the message it is created for
createAccumulatorCounted(doc, guildId) ==
  [key |-> docKey(doc),
   guildId |-> guildId,
   channelId |-> doc.channelId,
   threadId |-> doc.threadId,
   parentChannelId |-> doc.parentChannelId,
   messageCount |-> 1,
   linkCount |-> 0,
   reactionWeighted |-> 0,
   participants |-> <<>>,
   topicStats |-> <<>>,
   keywordSet |-> <<>>,
   messages |-> <<>>,
   decisionVerbHits |-> 0,
   firstMessageAt |-> doc.timestamp,
   lastMessageAt |-> doc.timestamp]

createAccumulator(doc, guildId) ==
  [key |-> docKey(doc),
   guildId |-> guildId,
   channelId |-> doc.channelId,
   threadId |-> doc.threadId,
   parentChannelId |-> doc.parentChannelId,
   messageCount |-> 0,
   linkCount |-> 0,
   reactionWeighted |-> 0,
   participants |-> <<>>,
   topicStats |-> <<>>,
   keywordSet |-> <<>>,
   messages |-> <<>>,
   decisionVerbHits |-> 0,
   firstMessageAt |-> doc.timestamp,
   lastMessageAt |-> doc.timestamp]

\* index in an insertion-ordered Map of the entry whose field f has value k (0: none)
keyIndex(entries, k) == IF \E i \in 1..Len(entries) : entries[i].key = k THEN CHOOSE i \in 1..Len(entries) : entries[i].key = k ELSE 0
slugIndex(entries, slug) == IF \E i \in 1..Len(entries) : entries[i].slug = slug THEN CHOOSE i \in 1..Len(entries) : entries[i].slug = slug ELSE 0

RECURSIVE addAll(_, _)
addAll(set, items) == IF items = <<>> THEN set ELSE addAll(SetAdd(set, Head(items)), Tail(items))

\* the body of the loop over topics, for one topic
\* the filter callback reads topic.keywords.includes once per matched keyword: with a matched
\* keyword and no keywords property it raises a TypeError, which nothing in fetchFeatures catches
topicLoopThrows(doc, topic) == doc.matchedKeywords # <<>> /\ "keywords" \notin DOMAIN topic

accumulateTopic(topicStats, doc, topic) ==
  LET keywordHits == Len(SelectSeq(doc.matchedKeywords, LAMBDA k : Includes(topic.keywords, k)))
      bigramHits == IF Len(orEmpty(topic, "bigrams")) > 0 /\ doc.normalizedContent # <<>>
                    THEN Len(SelectSeq(orEmpty(topic, "bigrams"), LAMBDA b : includesText(doc.normalizedContent, toLowerCase(b))))
                    ELSE 0
      i == slugIndex(topicStats, topic.slug)
      metric == IF i = 0 THEN [slug |-> topic.slug, keywordHits |-> 0, bigramHits |-> 0, boost |-> topic.boost] ELSE topicStats[i]
      updated == [metric EXCEPT !.keywordHits = @ + keywordHits, !.bigramHits = @ + bigramHits]
  IN  IF keywordHits > 0 \/ bigramHits > 0
      THEN IF i = 0 THEN Append(topicStats, updated) ELSE [topicStats EXCEPT ![i] = updated]
      ELSE topicStats

RECURSIVE accumulateTopics(_, _, _, _)
accumulateTopics(topicStats, doc, topics, t) ==
  IF t > Len(topics) THEN topicStats ELSE accumulateTopics(accumulateTopic(topicStats, doc, topics[t]), doc, topics, t + 1)

UnitCap == 2       \* a per-unit cap on the messages kept for the summarizer

\* a loop body that stops appending once the unit holds UnitCap messages
accumulateCapped(acc, doc, topics) ==
  [acc EXCEPT
     !.messageCount = @ + 1,
     !.linkCount = @ + doc.linkCount,
     !.participants = SetAdd(@, doc.authorId),
     !.lastMessageAt = IF doc.timestamp > @ THEN doc.timestamp ELSE @,
     !.keywordSet = addAll(@, doc.matchedKeywords),
     !.messages = IF Len(@) < UnitCap THEN Append(@, toSummaryMessage(doc)) ELSE @,
     !.reactionWeighted = @ + calculateReactionWeight(doc.reactionSummary),
     !.decisionVerbHits = @ + countDecisionVerbs(doc.content),
     !.topicStats = accumulateTopics(@, doc, topics, 1)]

\* the body of the loop over messages, for one message
accumulate(acc, doc, topics) ==
  [acc EXCEPT
     !.messageCount = @ + 1,
     !.linkCount = @ + doc.linkCount,
     !.participants = SetAdd(@, doc.authorId),
     !.lastMessageAt = IF doc.timestamp > @ THEN doc.timestamp ELSE @,
     !.keywordSet = addAll(@, doc.matchedKeywords),
     !.messages = Append(@, toSummaryMessage(doc)),
     !.reactionWeighted = @ + calculateReactionWeight(doc.reactionSummary),
     !.decisionVerbHits = @ + countDecisionVerbs(doc.content),
     !.topicStats = accumulateTopics(@, doc, topics, 1)]

RECURSIVE groupMessages(_, _, _, _, _)
groupMessages(messages, i, topics, guildId, grouped) ==
  IF i > Len(messages) THEN grouped
  ELSE LET doc == messages[i]
           g == keyIndex(grouped, docKey(doc))
           acc == accumulate(IF g = 0 THEN createAccumulator(doc, guildId) ELSE grouped[g], doc, topics)
       IN  groupMessages(messages, i + 1, topics, guildId, IF g = 0 THEN Append(grouped, acc) ELSE [grouped EXCEPT ![g] = acc])

toFeature(acc, guildId) ==
  [key |-> acc.key,
   guildId |-> guildId,
   channelId |-> acc.channelId,
   threadId |-> acc.threadId,
   parentChannelId |-> acc.parentChannelId,
   uniqueParticipants |-> Len(acc.participants),
   messageCount |-> acc.messageCount,
   reactionWeighted |-> acc.reactionWeighted,
   topicHits |-> acc.topicStats,
   linkCount |-> acc.linkCount,
   decisionVerbHits |-> acc.decisionVerbHits,
   hasLinks |-> acc.linkCount >= LinkThreshold,
   firstMessageAt |-> acc.firstMessageAt,
   lastMessageAt |-> acc.lastMessageAt,
   matchedKeywords |-> acc.keywordSet,
   messages |-> acc.messages]

\* Message.find({guildId, timestamp >= cutoff, matchedKeywords in keywords}).sort({timestamp: 1}).limit(limit)
messageFind(collection, guildId, keywords, cutoffDate, limit) ==
  LET hits == {d \in collection : /\ d.guildId = guildId
                                  /\ d.timestamp >= cutoffDate
                                  /\ \E k \in Range(d.matchedKeywords) : Includes(keywords, k)}
      RECURSIVE ascending(_)
      ascending(ds) == IF ds = {} THEN <<>>
                       ELSE LET first == CHOOSE d \in ds : \A e \in ds : d.timestamp <= e.timestamp
                            IN  <<first>> \o ascending(ds \ {first})
      sorted == ascending(hits)
  IN  SubSeq(sorted, 1, Min2(limit, Len(sorted)))

\* whether the call ends with the TypeError of the topic loop instead of a feature list
fetchThrows(collection, cache, guildId, keywords, cutoffDate, limit) ==
  \E doc \in Range(messageFind(collection, guildId, keywords, cutoffDate, limit)), topic \in Range(topicList(cache)) :
    topicLoopThrows(doc, topic)

fetchFeatures(collection, topicCache, guildId, keywords, cutoffDate, limit) ==
  LET messages == messageFind(collection, guildId, keywords, cutoffDate, limit)
      grouped == groupMessages(messages, 1, topicList(topicCache), guildId, <<>>)
  IN  IF Len(messages) = 0 THEN <<>> ELSE [i \in 1..Len(grouped) |-> toFeature(grouped[i], guildId)]

(***************************************************************************)
(* ThreadScoringService.  Breakdown terms are in units of 1/Milli, a topic *)
(* boost in units of 1/Deci, the score in units of 1/(Milli * Milli).      *)
(***************************************************************************)
Deci == 10
DecayHours == 72

computeTopicHitScore(feature) ==
  SumSeq([i \in 1..Len(feature.topicHits) |->
            (feature.topicHits[i].keywordHits * 2 + feature.topicHits[i].bigramHits * 4) * feature.topicHits[i].boost])

breakdownOf(feature, now) ==
  [participants |-> 1200 * feature.uniqueParticipants,
   messageCount |-> LnMicro(1 + feature.messageCount) \div Milli,
   reactions |-> (8 * feature.reactionWeighted) \div 10,
   topicHits |-> 130 * computeTopicHitScore(feature),
   links |-> 1100 * (IF feature.hasLinks THEN 2 ELSE 0),
   decisions |-> 1400 * feature.decisionVerbHits * 3,
   timeDecay |-> Max2(0, ((now - feature.lastMessageAt) * Milli) \div DecayHours)]

rawScoreOf(b) == b.participants + b.messageCount + b.reactions + b.topicHits + b.links + b.decisions - b.timeDecay

\* a scoring that leaves the channel multiplier out
scoreFeatureUnweighted(feature, multiplier, now) ==
  [feature |-> feature, score |-> rawScoreOf(breakdownOf(feature, now)) * DefaultMultiplier, breakdown |-> breakdownOf(feature, now)]

scoreFeature(feature, multiplier, now) ==
  LET breakdown == breakdownOf(feature, now)
  IN  [feature |-> feature, score |-> rawScoreOf(breakdown) * multiplier, breakdown |-> breakdown]

\* a scoring that returns the scores in extraction order
scoreThreadsUnsorted(cfgCacheNow, guildId, features, now) ==
  [i \in 1..Len(features) |->
     scoreFeature(features[i], getChannelMultiplier(cfgCacheNow, guildId, features[i].channelId), now)]

scoreThreads(cfgCacheNow, guildId, features, now) ==
  LET mapped == [i \in 1..Len(features) |->
                   scoreFeature(features[i], getChannelMultiplier(cfgCacheNow, guildId, features[i].channelId), now)]
      sorted == sortDescending([i \in 1..Len(mapped) |-> [key |-> mapped[i].score, item |-> mapped[i]]])
  IN  [i \in 1..Len(sorted) |-> sorted[i].item]

(***************************************************************************)
(* TopicCounterService                                                     *)
(***************************************************************************)
TopTopics == 3

\* Map.set(k, (Map.get(k) ?? 0) + w) on an insertion-ordered Map of [key, item |-> token] entries
addWeight(entries, token, weight) ==
  LET i == IF \E j \in 1..Len(entries) : entries[j].item = token THEN CHOOSE j \in 1..Len(entries) : entries[j].item = token ELSE 0
  IN  IF i = 0 THEN Append(entries, [key |-> weight, item |-> token]) ELSE [entries EXCEPT ![i].key = @ + weight]

RECURSIVE addWeights(_, _)
addWeights(entries, more) == IF more = <<>> THEN entries ELSE addWeights(addWeight(entries, Head(more).item, Head(more).key), Tail(more))

labelWeights(feature) ==
  [i \in 1..Len(feature.topicHits) |->
     [key |-> feature.topicHits[i].keywordHits + feature.topicHits[i].bigramHits * 2, item |-> feature.topicHits[i].slug]]

\* a count that cuts the totals to three without sorting them
topicCountUnsorted(scores) ==
  LET totals == addWeights(<<>>, Flatten([i \in 1..Len(scores) |-> labelWeights(scores[i].feature)]))
  IN  [i \in 1..Min2(TopTopics, Len(totals)) |-> [slug |-> totals[i].item, count |-> totals[i].key]]

topicCount(scores) ==
  LET totals == addWeights(<<>>, Flatten([i \in 1..Len(scores) |-> labelWeights(scores[i].feature)]))
      sorted == sortDescending(totals)
  IN  [i \in 1..Min2(TopTopics, Len(sorted)) |-> [slug |-> sorted[i].item, count |-> sorted[i].key]]

(***************************************************************************)
(* ThemeClusterService.  A vector is an insertion-ordered Map of           *)
(* [key |-> weight, item |-> token] entries, weights in units of 1/Deci.   *)
(***************************************************************************)
ThresholdNum == 1
ThresholdDen == 5
ClusterTopTokens == 2
GlobalTopTokens == 10

General == <<"g","e","n","e","r","a","l">>
LabelSeparator == <<" ", "U+00C2", "U+00B7", " ">>

buildVector(score) ==
  LET hits == score.feature.topicHits
      weights == [i \in 1..Len(hits) |-> [key |-> (hits[i].keywordHits * 2 + hits[i].bigramHits * 4) * hits[i].boost, item |-> hits[i].slug]]
      keywords == [i \in 1..Len(score.feature.matchedKeywords) |-> [key |-> Deci, item |-> score.feature.matchedKeywords[i]]]
  IN  addWeights(addWeights(<<>>, SelectSeq(weights, LAMBDA w : w.key > 0)), keywords)

vectorGet(v, token) == IF \E i \in 1..Len(v) : v[i].item = token THEN v[CHOOSE i \in 1..Len(v) : v[i].item = token].key ELSE 0

\* n / (Math.sqrt(n) * Math.sqrt(n)) in IEEE 754 double arithmetic, for the integers n up to
\* SqrtTableMax: the n for which the quotient is the double above 1, and those for which it is
\* a double below 1; for every other n of the range it is exactly 1
SqrtTableMax == 64
QuotientAboveOne == {3, 6, 12, 13, 18, 23, 24, 26, 29, 31, 37, 38, 43, 48, 52, 59, 61}
QuotientBelowOne == {2, 5, 7, 8, 10, 15, 19, 20, 28, 32, 40, 45, 50, 51, 58, 60, 63}

\* the direction in which the double dot / (Math.sqrt(normA) * Math.sqrt(normB)) misses the exact
\* quotient, where the table tells: both vectors hold whole numbers only (the sums are then
\* exact) and dot = normA = normB = n; 0 stands for every case the table does not cover
quotientRounding(a, b, dot, normA, normB) ==
  IF /\ dot = normA
     /\ dot = normB
     /\ \A i \in 1..Len(a) : a[i].key % Deci = 0
     /\ \A i \in 1..Len(b) : b[i].key % Deci = 0
     /\ dot \div (Deci * Deci) <= SqrtTableMax
  THEN IF dot \div (Deci * Deci) \in QuotientAboveOne THEN 1
       ELSE IF dot \div (Deci * Deci) \in QuotientBelowOne THEN 0 - 1
       ELSE 0
  ELSE 0

\* the quotient without the guard for a zero norm: 0 / 0 where a vector is empty
cosineSimilarityUnguarded(a, b) ==
  LET shared == {a[i].item : i \in 1..Len(a)} \cup {b[i].item : i \in 1..Len(b)}
      RECURSIVE sum(_, _)
      sum(ts, f) == IF ts = {} THEN 0 ELSE LET t == CHOOSE x \in ts : TRUE IN f[t] + sum(ts \ {t}, f)
      dot == sum(shared, [t \in shared |-> vectorGet(a, t) * vectorGet(b, t)])
      normA == sum(shared, [t \in shared |-> vectorGet(a, t) * vectorGet(a, t)])
      normB == sum(shared, [t \in shared |-> vectorGet(b, t) * vectorGet(b, t)])
  IN  [dot |-> dot, norms |-> normA * normB, rounding |-> 0]

\* the similarity dot / (sqrt(normA) * sqrt(normB)) as the exact pair [dot, norms |-> normA * normB]
\* with the direction of the double's rounding error; 0 is [0, 1] without error
cosineSimilarity(a, b) ==
  LET shared == {a[i].item : i \in 1..Len(a)} \cup {b[i].item : i \in 1..Len(b)}
      RECURSIVE sum(_, _)
      sum(ts, f) == IF ts = {} THEN 0 ELSE LET t == CHOOSE x \in ts : TRUE IN f[t] + sum(ts \ {t}, f)
      dot == sum(shared, [t \in shared |-> vectorGet(a, t) * vectorGet(b, t)])
      normA == sum(shared, [t \in shared |-> vectorGet(a, t) * vectorGet(a, t)])
      normB == sum(shared, [t \in shared |-> vectorGet(b, t) * vectorGet(b, t)])
  IN  IF normA = 0 \/ normB = 0 THEN [dot |-> 0, norms |-> 1, rounding |-> 0]
      ELSE [dot |-> dot, norms |-> normA * normB, rounding |-> quotientRounding(a, b, dot, normA, normB)]

\* similarity >= threshold, exactly: dot / sqrt(norms) >= num / den
atLeastThreshold(similarity) ==
  (ThresholdDen * similarity.dot) * (ThresholdDen * similarity.dot) >= ThresholdNum * ThresholdNum * similarity.norms

\* a label taken from the aggregate vector weights, the weights behind topTokens
buildLabelFromVectors(scores) ==
  LET label(sorted) ==
        IF Len(sorted) >= 2 THEN sorted[1].item \o LabelSeparator \o sorted[2].item
        ELSE IF Len(sorted) = 1 THEN sorted[1].item
        ELSE General
  IN  label(sortDescending(addWeights(<<>>, Flatten([i \in 1..Len(scores) |-> buildVector(scores[i])]))))

buildLabel(scores) ==
  LET tokens == addWeights(<<>>, Flatten([i \in 1..Len(scores) |-> labelWeights(scores[i].feature)]))
      sorted == sortDescending(tokens)
  IN  IF Len(scores) = 0 THEN General
      ELSE IF Len(sorted) >= 2 THEN sorted[1].item \o LabelSeparator \o sorted[2].item
      ELSE IF Len(sorted) = 1 THEN sorted[1].item
      ELSE General

clusterTotals(indices, vectors) == addWeights(<<>>, Flatten([k \in 1..Len(indices) |-> vectors[indices[k]]]))

topTokensForCluster(indices, vectors, take) ==
  LET sorted == sortDescending(clusterTotals(indices, vectors))
  IN  [i \in 1..Min2(take, Len(sorted)) |-> sorted[i].item]

\* an inner loop that does not skip the visited indices
clusterMembersRevisiting(vectors, visited, i) ==
  <<i>> \o SelectSeq([k \in 1..(Len(vectors) - i) |-> i + k],
                     LAMBDA j : atLeastThreshold(cosineSimilarity(vectors[i], vectors[j])))

\* an inner loop that compares a unit with every member collected so far, not with the seed only
RECURSIVE chainedMembers(_, _, _, _)
chainedMembers(vectors, visited, members, j) ==
  IF j > Len(vectors) THEN members
  ELSE IF /\ j \notin visited
          /\ \E k \in 1..Len(members) : atLeastThreshold(cosineSimilarity(vectors[members[k]], vectors[j]))
       THEN chainedMembers(vectors, visited, Append(members, j), j + 1)
       ELSE chainedMembers(vectors, visited, members, j + 1)

clusterMembersChained(vectors, visited, i) == chainedMembers(vectors, visited, <<i>>, i + 1)

\* the members the inner loop collects for seed i: i, then every later unvisited j similar to the seed
clusterMembers(vectors, visited, i) ==
  <<i>> \o SelectSeq([k \in 1..(Len(vectors) - i) |-> i + k],
                     LAMBDA j : j \notin visited /\ atLeastThreshold(cosineSimilarity(vectors[i], vectors[j])))

RECURSIVE clusterFrom(_, _, _, _)
clusterFrom(scores, vectors, visited, i) ==
  IF i > Len(scores) THEN <<>>
  ELSE IF i \in visited THEN clusterFrom(scores, vectors, visited, i + 1)
  ELSE LET members == clusterMembers(vectors, visited, i)
           clusterScores == [k \in 1..Len(members) |-> scores[members[k]]]
       IN  <<[id |-> i - 1,
              label |-> buildLabel(clusterScores),
              members |-> clusterScores,
              topTokens |-> topTokensForCluster(members, vectors, ClusterTopTokens)]>>
           \o clusterFrom(scores, vectors, visited \cup Range(members), i + 1)

analyze(scores) ==
  LET vectors == [i \in 1..Len(scores) |-> buildVector(scores[i])]
      globalCounts == sortDescending(addWeights(<<>>, Flatten(vectors)))
  IN  IF Len(scores) = 0 THEN [clusters |-> <<>>, globalTopTokens |-> <<>>]
      ELSE [clusters |-> clusterFrom(scores, vectors, {}, 1),
            globalTopTokens |-> [i \in 1..Min2(GlobalTopTokens, Len(globalCounts)) |-> [token |-> globalCounts[i].item, count |-> globalCounts[i].key]]]

(***************************************************************************)
(* Inputs.  The seeded taxonomy, and the Discord messages and summarizer   *)
(* messages the specifications draw their inputs from.                     *)
(***************************************************************************)
G1 == "g1"
G2 == "g2"
Guilds == {G1, G2}
Channels == {"c1", "c2"}

\* TopicService.seedDefaults: the cache after initialize() on an empty collection (boost in 1/Deci)
SeededTopics == <<
  [slug |-> <<"p","o","l","i","c","y">>,
   keywords |-> <<<<"p","o","l","i","c","y">>, <<"b","i","l","l">>, <<"r","e","g","u","l","a","t","i","o","n">>, <<"l","e","g","i","s","l","a","t","i","o","n">>, <<"p","e","r","m","i","t">>, <<"p","e","r","m","i","t","t","i","n","g">>, <<"m","i","n","i","s","t","e","r","i","a","l">>>>,
   bigrams |-> <<<<"e","n","v","i","r","o","n","m","e","n","t","a","l"," ","a","s","s","e","s","s","m","e","n","t">>, <<"i","m","p","a","c","t"," ","a","s","s","e","s","s","m","e","n","t">>, <<"p","u","b","l","i","c"," ","c","o","n","s","u","l","t","a","t","i","o","n">>>>,
   boost |-> 12],
  [slug |-> <<"e","n","e","r","g","y">>,
   keywords |-> <<<<"p","i","p","e","l","i","n","e">>, <<"t","r","a","n","s","m","i","s","s","i","o","n">>, <<"g","r","i","d">>, <<"h","y","d","r","o">>, <<"n","u","c","l","e","a","r">>, <<"u","r","a","n","i","u","m">>, <<"o","i","l">>, <<"l","n","g">>, <<"g","a","s">>>>,
   bigrams |-> <<<<"n","a","t","u","r","a","l"," ","r","e","s","o","u","r","c","e","s">>, <<"p","o","w","e","r"," ","p","u","r","c","h","a","s","e">>>>,
   boost |-> 11],
  [slug |-> <<"b","u","i","l","d","e","r","-","m","p">>,
   keywords |-> <<<<"b","u","i","l","d","e","r","-","m","p">>, <<"m","i","l","e","s","t","o","n","e">>, <<"r","e","l","e","a","s","e">>, <<"d","e","p","l","o","y">>, <<"r","o","l","l","b","a","c","k">>, <<"b","u","g","f","i","x">>>>,
   bigrams |-> <<<<"f","e","a","t","u","r","e"," ","f","l","a","g">>, <<"r","e","l","e","a","s","e"," ","n","o","t","e","s">>>>,
   boost |-> 13] >>

\* the keywords the message indexer matches (the subscribed keywords of the guild)
AllKeywords == <<<<"g","r","i","d">>, <<"p","e","r","m","i","t">>, <<"p","o","l","i","c","y">>, <<"t","r","a","n","s","i","t">>>>

DiscordMessages == <<
  [id |-> "m1", guildId |-> G1, channelId |-> "c1", isThread |-> FALSE, parentId |-> "", authorId |-> "a1", authorUsername |-> <<"a","l","i","c","e">>,
   createdAt |-> 10, reactions |-> <<>>,
   content |-> <<"G","r","i","d"," ","p","e","r","m","i","t"," ","a","p","p","r","o","v","e","d","."," ","S","h","i","p"," ","i","t","!">>],
  [id |-> "m2", guildId |-> G1, channelId |-> "c1", isThread |-> FALSE, parentId |-> "", authorId |-> "a2", authorUsername |-> <<"b","o","b">>,
   createdAt |-> 20, reactions |-> <<[emoji |-> "joy", count |-> 1]>>,
   content |-> <<"p","o","l","i","c","y"," ","u","p","d","a","t","e",":"," ","s","e","e"," ","h","t","t","p",":","/","/","a",".","c","a","/","x"," ","a","n","d"," ","h","t","t","p","s",":","/","/","b",".","c","a","/","y">>],
  [id |-> "m3", guildId |-> G1, channelId |-> "t1", isThread |-> TRUE, parentId |-> "c1", authorId |-> "a1", authorUsername |-> <<"a","l","i","c","e">>,
   createdAt |-> 30, reactions |-> <<[emoji |-> "thumbsup", count |-> 2], [emoji |-> "eyes", count |-> 1]>>,
   content |-> <<"g","r","i","d"," ","p","o","w","e","r"," ","p","u","r","c","h","a","s","e"," ","E","T","A","?">>],
  [id |-> "m4", guildId |-> G1, channelId |-> "c2", isThread |-> FALSE, parentId |-> "", authorId |-> "a3", authorUsername |-> <<"c","a","r","o","l">>,
   createdAt |-> 40, reactions |-> <<>>,
   content |-> <<"T","r","a","n","s","i","t"," ","p","e","r","m","i","t"," ","o","w","n","e","r"," ","d","e","c","i","d","e","d">>],
  [id |-> "m5", guildId |-> G1, channelId |-> "t1", isThread |-> TRUE, parentId |-> "c1", authorId |-> "a1", authorUsername |-> <<"a","l","i","c","e">>,
   createdAt |-> 50, reactions |-> <<>>,
   content |-> <<"p","o","l","i","c","y",":"," ","p","u","b","l","i","c"," ","c","o","n","s","u","l","t","a","t","i","o","n"," ","(","h","t","t","p",":","/","/","c",".","c","a","/","z",")">>],
  [id |-> "m6", guildId |-> G1, channelId |-> "c1", isThread |-> FALSE, parentId |-> "", authorId |-> "a3", authorUsername |-> <<"c","a","r","o","l">>,
   createdAt |-> 5, reactions |-> <<>>,
   content |-> <<"p","e","r","m","i","t">>],
  [id |-> "m7", guildId |-> G1, channelId |-> "c3", isThread |-> FALSE, parentId |-> "", authorId |-> "a1", authorUsername |-> <<"a","l","i","c","e">>,
   createdAt |-> 60, reactions |-> <<>>,
   content |-> <<"T","r","a","n","s","i","t"," ","n","e","w","s">>] >>

\* what MessageIndexer.indexMessage stores for each of them
IndexedMessages == <<indexMessage(DiscordMessages[1], AllKeywords), indexMessage(DiscordMessages[2], AllKeywords),
                     indexMessage(DiscordMessages[3], AllKeywords), indexMessage(DiscordMessages[4], AllKeywords),
                     indexMessage(DiscordMessages[5], AllKeywords), indexMessage(DiscordMessages[6], AllKeywords),
                     indexMessage(DiscordMessages[7], AllKeywords)>>

\* a guild whose keywords belong to no topic, and two channels that talk about all of them
NewsKeywords == <<<<"t","r","a","n","s","i","t">>, <<"n","e","w","s">>, <<"t","o","d","a","y">>>>

NewsMessages == <<
  [id |-> "n1", guildId |-> G1, channelId |-> "c1", isThread |-> FALSE, parentId |-> "", authorId |-> "a1", authorUsername |-> <<"a","l","i","c","e">>,
   createdAt |-> 10, reactions |-> <<>>,
   content |-> <<"T","r","a","n","s","i","t"," ","n","e","w","s"," ","t","o","d","a","y">>],
  [id |-> "n2", guildId |-> G1, channelId |-> "c2", isThread |-> FALSE, parentId |-> "", authorId |-> "a2", authorUsername |-> <<"b","o","b">>,
   createdAt |-> 20, reactions |-> <<>>,
   content |-> <<"t","o","d","a","y",":"," ","n","e","w","s"," ","o","n"," ","t","r","a","n","s","i","t","!">>]>>

IndexedNews == <<indexMessage(NewsMessages[1], NewsKeywords), indexMessage(NewsMessages[2], NewsKeywords)>>

(***************************************************************************)
(* DigestGenerator.generateDigest: one digest computation.  It is split at *)
(* its awaits: the stretch that follows the extractor's query up to the    *)
(* header embed, and one stretch per thread embed.                         *)
(***************************************************************************)
TopScores == 9
DefaultTopicLabel == <<"d","i","s","c","u","s","s","i","o","n">>

\* an accumulator map that a call inherits from the call before it
keptGrouped(previous) == previous

\* const grouped = new Map(): the accumulator map of a call, whatever an earlier call built
newGrouped(previous) == <<>>

featuresOf(grouped, guildId) == [i \in 1..Len(grouped) |-> toFeature(grouped[i], guildId)]

\* sortedTopics[0]?.slug ?? feature.matchedKeywords[0] ?? 'discussion'
primaryTopic(feature) ==
  LET sortedTopics == sortDescending([i \in 1..Len(feature.topicHits) |->
                        [key |-> (feature.topicHits[i].keywordHits + feature.topicHits[i].bigramHits * 2) * feature.topicHits[i].boost,
                         item |-> feature.topicHits[i].slug]])
  IN  IF sortedTopics # <<>> THEN sortedTopics[1].item
      ELSE IF feature.matchedKeywords # <<>> THEN feature.matchedKeywords[1]
      ELSE DefaultTopicLabel

\* the parameters of the digest requests
RunIds == {"r1", "r2"}
runGuild(r) == IF r = "r1" THEN G1 ELSE G2
runKeywords(r) == AllKeywords
runHours(r) == IF r = "r1" THEN 72 ELSE 24

\* a computation that has not been requested, and one that found no message
idleRun == [pc |-> "idle"]
emptyRun(guildId, concurrent) == [pc |-> "done", guildId |-> guildId, concurrent |-> concurrent, features |-> <<>>, summaries |-> <<>>]

\* the locals of generateDigest once the header embed is awaited
scoredRun(guildId, concurrent, cache, cfgCacheNow, time, features, scored) ==
  [pc |-> "threads",
   guildId |-> guildId,
   concurrent |-> concurrent,
   topics |-> cache,
   multipliers |-> cfgCacheNow,
   scoredAt |-> time,
   features |-> features,
   scored |-> scored,
   themeAnalysis |-> analyze(scored),
   topTopics |-> topicCount(scored),
   topScores |-> SubSeq(scored, 1, Min2(TopScores, Len(scored))),
   summaries |-> <<>>]

startedRun(guildId, concurrent, cache, cfgCacheNow, time, features) ==
  scoredRun(guildId, concurrent, cache, cfgCacheNow, time, features, scoreThreads(cfgCacheNow, guildId, features, time))

\* buildThreadEmbed up to its first await, for the next of the top scores
threadSummary(feature, topic, cache) ==
  [key |-> feature.key, primaryTopic |-> topic, topics |-> cache, extractive |-> summarize(feature.messages, topic, cache)]

summarizedRun(run, cache) ==
  LET summaries == Append(run.summaries, threadSummary(run.topScores[Len(run.summaries) + 1].feature,
                                                       primaryTopic(run.topScores[Len(run.summaries) + 1].feature), cache))
  IN  [run EXCEPT !.summaries = summaries,
                  !.pc = IF Len(summaries) = Len(run.topScores) THEN "done" ELSE "threads"]

(***************************************************************************)
(* interactionCleanup: the timers that delete an ephemeral reply.  Times   *)
(* are in milliseconds.                                                    *)
(***************************************************************************)
DefaultTtlMs == 30000
NoTimer == 0
NoMessageId == ""
Undefined == [undefined |-> TRUE]

\* options.ttlMs ?? DEFAULT_TTL_MS, and the default value of the ttlMs parameter
ttlOrDefault(ttlMs) == IF ttlMs = Undefined THEN DefaultTtlMs ELSE ttlMs.ms

clearTimeout(pending, id) == {t \in pending : t.id # id}

\* scheduleInteractionCleanup(interaction, { messageId, ttlMs }) called at `time`, on the record
\* [map: the interaction's entry of cleanupTimers, pending: the runtime's timeouts, created]
scheduleInteractionCleanup(timers, messageId, ttlMs, time) ==
  [map |-> timers.created + 1,
   pending |-> (IF timers.map # NoTimer THEN clearTimeout(timers.pending, timers.map) ELSE timers.pending)
                 \cup {[id |-> timers.created + 1, due |-> time + ttlOrDefault(ttlMs), messageId |-> messageId]},
   created |-> timers.created + 1]

\* the callback of a timeout: the webhook route returns before the map entry is deleted
timeoutCallback(timers, timeout) ==
  [map |-> IF timeout.messageId # NoMessageId THEN timers.map ELSE NoTimer,
   pending |-> timers.pending \ {timeout},
   created |-> timers.created]

(***************************************************************************)
(* NotificationService: digest DMs under a per-keyword cooldown.  Times    *)
(* are in milliseconds, a topic weight in units of 1/Deci.                 *)
(***************************************************************************)
HourMs == 3600000

\* Math.ceil(a / b) for a positive a
ceilDiv(a, b) == (a + b - 1) \div b

\* Math.round of a weight given in tenths
roundDeci(w) == (w + 5) \div 10

\* whether the loop of assessEligibility returns at the keyword: it has a lastNotified entry
\* and less than the cooldown has passed since
cooldownActive(subscription, keyword, time) ==
  /\ keyword \in DOMAIN subscription.lastNotified
  /\ time - subscription.lastNotified[keyword] < subscription.cooldownHours * HourMs

cooldownReason(subscription, keyword, time) ==
  [text |-> "Cooldown active",
   remainingHours |-> ceilDiv(subscription.cooldownHours * HourMs - (time - subscription.lastNotified[keyword]), HourMs),
   keyword |-> keyword]

\* an eligibility check that looks at the first keyword only
assessEligibilityFirstKeyword(subscription, time) ==
  IF subscription = Null \/ ~subscription.dmEnabled THEN [eligible |-> FALSE, reason |-> [text |-> "DMs not enabled"]]
  ELSE IF Len(subscription.keywords) = 0 THEN [eligible |-> FALSE, reason |-> [text |-> "No keywords subscribed"]]
  ELSE IF cooldownActive(subscription, subscription.keywords[1], time)
       THEN [eligible |-> FALSE, reason |-> cooldownReason(subscription, subscription.keywords[1], time)]
  ELSE [eligible |-> TRUE]

assessEligibility(subscription, time) ==
  IF subscription = Null \/ ~subscription.dmEnabled THEN [eligible |-> FALSE, reason |-> [text |-> "DMs not enabled"]]
  ELSE IF Len(subscription.keywords) = 0 THEN [eligible |-> FALSE, reason |-> [text |-> "No keywords subscribed"]]
  ELSE IF \E i \in 1..Len(subscription.keywords) : cooldownActive(subscription, subscription.keywords[i], time)
       THEN LET first == CHOOSE i \in 1..Len(subscription.keywords) :
                           /\ cooldownActive(subscription, subscription.keywords[i], time)
                           /\ \A j \in 1..(i - 1) : ~cooldownActive(subscription, subscription.keywords[j], time)
            IN  [eligible |-> FALSE, reason |-> cooldownReason(subscription, subscription.keywords[first], time)]
  ELSE [eligible |-> TRUE]

\* for (const keyword of subscription.keywords) subscription.lastNotified.set(keyword, updateTime)
setLastNotified(lastNotified, keywords, updateTime) ==
  [k \in DOMAIN lastNotified \cup Range(keywords) |-> IF k \in Range(keywords) THEN updateTime ELSE lastNotified[k]]

\* the document DigestHistory.create is given by recordDigestHistory
digestHistoryRecord(guildId, recipientUserId, digest, success, reason) ==
  [guildId |-> guildId,
   recipientUserId |-> recipientUserId,
   topicClusters |-> [i \in 1..Len(digest.threadDetails) |->
                        [keyword |-> digest.threadDetails[i].primaryTopic,
                         messageCount |-> digest.threadDetails[i].messageCount,
                         crossRefs |-> [t \in 1..Len(digest.threadDetails[i].topics) |->
                                          [keyword |-> digest.threadDetails[i].topics[t].slug,
                                           count |-> roundDeci(digest.threadDetails[i].topics[t].weight)]]]],
   threadScores |-> digest.stats.threadScores,
   topTopics |-> digest.stats.topTopics,
   clusterLabels |-> digest.stats.clusterLabels,
   tokensUsed |-> digest.stats.tokensUsed,
   costUSD |-> digest.stats.cost,
   deliveryMethod |-> "dm",
   success |-> success,
   errorMessage |-> IF success THEN Undefined ELSE reason]

\* the document the catch block of notifyUser creates
failedAttemptRecord(guildId, userId, message) ==
  [guildId |-> guildId, recipientUserId |-> userId, topicClusters |-> <<>>, threadScores |-> <<>>, topTopics |-> <<>>,
   clusterLabels |-> <<>>, tokensUsed |-> [input |-> 0, output |-> 0], costUSD |-> 0, deliveryMethod |-> "dm",
   success |-> FALSE, errorMessage |-> [text |-> message]]

\* what sendDigestDM returns for the outcome of users.fetch and user.send
sendDigestDM(outcome) ==
  CASE outcome = "sent" -> [success |-> TRUE]
    [] outcome = "closed" -> [success |-> FALSE, reason |-> [text |-> "DMs closed"]]
    [] OTHER -> [success |-> FALSE, reason |-> [text |-> "Cannot send messages to this user"]]

\* the database after deliverSubscriptionDigest has handled the answer of sendDigestDM:
\* [subscription, history, saves]; save() writes the paths the call modified on its document
deliverSubscriptionDigest(db, loaded, guildId, digest, outcome, time) ==
  IF outcome = "sent"
  THEN [subscription |-> [db.subscription EXCEPT !.lastNotified = setLastNotified(@, loaded.keywords, time)],
        history |-> Append(db.history, digestHistoryRecord(guildId, loaded.userId, digest, TRUE, Undefined)),
        saves |-> db.saves + 1]
  ELSE [subscription |-> IF outcome = "closed" THEN [db.subscription EXCEPT !.dmEnabled = FALSE] ELSE db.subscription,
        history |-> Append(db.history, digestHistoryRecord(guildId, loaded.userId, digest, FALSE, sendDigestDM(outcome).reason)),
        saves |-> IF outcome = "closed" THEN db.saves + 1 ELSE db.saves]

(***************************************************************************)
(* RateLimiter: a queue of tasks run one at a time, delayMs apart.  Times  *)
(* are in milliseconds.                                                    *)
(***************************************************************************)
DefaultDelayMs == 1000

\* new RateLimiter(delayMs); loops holds the processQueue calls that have not returned
newRateLimiter(delayMs) ==
  [queue |-> <<>>, processing |-> FALSE, lastExecutionTime |-> 0, delayMs |-> delayMs, loops |-> <<>>]

\* the time processQueue sleeps before the next task: delayMs - timeSinceLastExecution, or nothing
sleepMs(limiter, time) ==
  IF time - limiter.lastExecutionTime < limiter.delayMs THEN limiter.delayMs - (time - limiter.lastExecutionTime) ELSE 0

withoutLoop(loops, k) == SubSeq(loops, 1, k - 1) \o SubSeq(loops, k + 1, Len(loops))

\* the loop is over: this.processing = false, and processQueue returns
endLoop(limiter, k) == [limiter EXCEPT !.processing = FALSE, !.loops = withoutLoop(@, k)]

\* const task = this.queue.shift(); if (task) { this.lastExecutionTime = Date.now(); await task() }
\* (with nothing to shift, the while condition ends the loop)
startTask(limiter, k, time) ==
  IF Len(limiter.queue) = 0 THEN endLoop(limiter, k)
  ELSE [limiter EXCEPT !.queue = Tail(@), !.lastExecutionTime = time, !.loops[k] = [pc |-> "awaiting", task |-> Head(limiter.queue)]]

\* one pass of the while loop of call k up to its first await, or the end of the loop
processNext(limiter, k, time) ==
  IF Len(limiter.queue) = 0 THEN endLoop(limiter, k)
  ELSE IF sleepMs(limiter, time) > 0
       THEN [limiter EXCEPT !.loops[k] = [pc |-> "sleeping", wake |-> time + sleepMs(limiter, time)]]
  ELSE startTask(limiter, k, time)

\* processQueue() past its guard: this.processing = true and the first pass of the loop
enterLoop(limiter, time) ==
  processNext([limiter EXCEPT !.processing = TRUE, !.loops = Append(@, [pc |-> "entered"])], Len(limiter.loops) + 1, time)

\* processQueue(), called by schedule
processQueue(limiter, time) ==
  IF limiter.processing \/ Len(limiter.queue) = 0 THEN limiter ELSE enterLoop(limiter, time)

\* a schedule that starts a loop whether or not one is running
scheduleAlways(limiter, task, time) == enterLoop([limiter EXCEPT !.queue = Append(@, task)], time)

\* schedule(task): push, and start the loop unless one is running
schedule(limiter, task, time) ==
  IF ~limiter.processing THEN processQueue([limiter EXCEPT !.queue = Append(@, task)], time)
  ELSE [limiter EXCEPT !.queue = Append(@, task)]

\* the wrapper schedule() pushes: try { resolve(await task()) } catch (error) { reject(error) }
wrapperOutcome(behaviour) == IF behaviour = "resolves" THEN "resolved" ELSE "rejected"

\* a loop that an error of the awaited task leaves: processQueue rejects, the flag stays set
taskSettledUncaught(limiter, k, outcome, time) ==
  IF outcome = "rejected" THEN [limiter EXCEPT !.loops = withoutLoop(@, k)]
  ELSE processNext([limiter EXCEPT !.loops[k] = [pc |-> "entered"]], k, time)

\* await task() is over, whatever the task did (the wrapper never rejects): the next pass
taskSettled(limiter, k, outcome, time) == processNext([limiter EXCEPT !.loops[k] = [pc |-> "entered"]], k, time)

\* the tasks the loops await
awaited(limiter) == {limiter.loops[k].task : k \in {j \in 1..Len(limiter.loops) : limiter.loops[j].pc = "awaiting"}}

(***************************************************************************)
(* ReminderService: a poller that claims the due reminders one at a time   *)
(* and delivers them, at most BATCH_LIMIT in one pass.  Times are in       *)
(* milliseconds.                                                           *)
(***************************************************************************)
POLL_INTERVAL_MS == 30000
BATCH_LIMIT == 10
MIN_DELAY_MINUTES == 5

\* the fields of a new ReminderService; client is whether a Client was handed over
newReminderService == [client |-> FALSE, poller |-> Null, processing |-> FALSE]

\* startPoller(): setInterval(..., POLL_INTERVAL_MS) unless a poller exists
startPoller(service, time) ==
  IF service.poller # Null THEN service ELSE [service EXCEPT !.poller = [due |-> time + POLL_INTERVAL_MS]]

\* initialize(client) of the reminder service
initializeReminders(service, time) == startPoller([service EXCEPT !.client = TRUE], time)

\* shutdown() of the reminder service
shutdownReminders(service) == [service EXCEPT !.poller = Null, !.processing = FALSE]

\* the document Reminder.create stores for scheduleReminder (status defaults to 'pending'); the
\* dates that nothing reads (createdAt, processingStartedAt, sentAt) are left out
newReminder(userId, deliveryMethod, targetChannelId, remindAt) ==
  [userId |-> userId, deliveryMethod |-> deliveryMethod, targetChannelId |-> targetChannelId, remindAt |-> remindAt,
   status |-> "pending", failureReason |-> Undefined]

\* a processDueReminders call that returns at its first lines
passSkipped == [pc |-> "returned", entered |-> FALSE, processed |-> 0, asked |-> Undefined, current |-> 0, handled |-> <<>>]

\* a processDueReminders call inside its loop, awaiting the findOneAndUpdate it called at the time
passEntered(time) == [pc |-> "claiming", entered |-> TRUE, processed |-> 0, asked |-> time, current |-> 0, handled |-> <<>>]

\* a processDueReminders call that starts a pass whatever the processing flag says
processDueRemindersUnguarded(service, time) ==
  IF ~service.client THEN [service |-> service, pass |-> passSkipped]
  ELSE [service |-> [service EXCEPT !.processing = TRUE], pass |-> passEntered(time)]

\* processDueReminders() up to its first await: [service, pass]; it returns when a pass is
\* processing or there is no client, otherwise it sets the flag and asks for the first reminder
processDueReminders(service, time) ==
  IF service.processing \/ ~service.client THEN [service |-> service, pass |-> passSkipped]
  ELSE [service |-> [service EXCEPT !.processing = TRUE], pass |-> passEntered(time)]

\* the reminders the filter { status: 'pending', remindAt: { $lte: new Date() } } matches
duePending(store, time) == {i \in 1..Len(store) : store[i].status = "pending" /\ store[i].remindAt <= time}

\* the documents findOneAndUpdate may pick under sort { remindAt: 1 }: a matching one with the
\* least remindAt (which one of several with the same remindAt is not determined)
firstDue(store, time) == {i \in duePending(store, time) : \A j \in duePending(store, time) : store[i].remindAt <= store[j].remindAt}

\* the update of findOneAndUpdate applied to document i, in the same database operation
findOneAndUpdate(store, i) == [store EXCEPT ![i].status = "processing"]

\* what Discord answers: DMs to DmClosedUser fail with code 50007, GoneChannel cannot be fetched
DmClosedUser == "user-2"
GoneChannel == "chan-gone"

\* deliver(reminder): the result of the send
deliver(service, reminder) ==
  IF ~service.client THEN [success |-> FALSE, reason |-> "Client not ready"]
  ELSE IF reminder.deliveryMethod = "dm"
       THEN IF reminder.userId = DmClosedUser THEN [success |-> FALSE, reason |-> "DMs closed"] ELSE [success |-> TRUE]
  ELSE IF reminder.targetChannelId = Undefined THEN [success |-> FALSE, reason |-> "Missing channel id"]
  ELSE IF reminder.targetChannelId = [id |-> GoneChannel] THEN [success |-> FALSE, reason |-> "Channel not found or not text-based"]
  ELSE [success |-> TRUE]

\* reminder.save() after the delivery: status and failureReason
saveDelivered(store, i, result) ==
  [store EXCEPT ![i].status = IF result.success THEN "sent" ELSE "failed",
                ![i].failureReason = IF result.success THEN Undefined ELSE [text |-> result.reason]]

(***************************************************************************)
(* SummaryCache: AI summaries cached under a key built from the keyword    *)
(* and the message ids.  Strings are sequences of characters, times are    *)
(* in milliseconds.                                                        *)
(***************************************************************************)
DefaultCacheDurationMs == 21600000
CleanupIntervalMs == 3600000

\* the order of the code units of the characters of a message id
DigitOrder == <<"0", "1", "2", "3", "4", "5", "6", "7", "8", "9">>
digitCode(c) == CHOOSE n \in 1..Len(DigitOrder) : DigitOrder[n] = c

\* a < b as Array.prototype.sort() compares two strings of digits
RECURSIVE stringBefore(_, _)
stringBefore(a, b) ==
  IF a = <<>> THEN b # <<>>
  ELSE IF b = <<>> THEN FALSE
  ELSE IF Head(a) = Head(b) THEN stringBefore(Tail(a), Tail(b))
  ELSE digitCode(Head(a)) < digitCode(Head(b))

RECURSIVE insertString(_, _)
insertString(sorted, x) ==
  IF sorted = <<>> THEN <<x>>
  ELSE IF stringBefore(x, Head(sorted)) THEN <<x>> \o sorted
  ELSE <<Head(sorted)>> \o insertString(Tail(sorted), x)

\* [...messageIds].sort()
RECURSIVE sortStrings(_)
sortStrings(ids) == IF ids = <<>> THEN <<>> ELSE insertString(sortStrings(SubSeq(ids, 1, Len(ids) - 1)), ids[Len(ids)])

\* sortedIds.join(',')
RECURSIVE joinComma(_)
joinComma(ids) ==
  IF ids = <<>> THEN <<>>
  ELSE IF Len(ids) = 1 THEN Head(ids)
  ELSE Head(ids) \o <<",">> \o joinComma(Tail(ids))

\* a key built from the ids in the order given
generateKeyUnsorted(messageIds, keyword) == keyword \o <<":">> \o joinComma(messageIds)

\* generateKey(messageIds, keyword): `${keyword}:${sortedIds.join(',')}`
generateKey(messageIds, keyword) == keyword \o <<":">> \o joinComma(sortStrings(messageIds))

\* Map.delete(key)
mapDelete(cache, key) == [k \in DOMAIN cache \ {key} |-> cache[k]]

\* get(messageIds, keyword) at the time `time`: [cache, result]; an expired entry is deleted
get(cache, messageIds, keyword, time) ==
  IF generateKey(messageIds, keyword) \notin DOMAIN cache THEN [cache |-> cache, result |-> Null]
  ELSE IF time >= cache[generateKey(messageIds, keyword)].expiresAt
       THEN [cache |-> mapDelete(cache, generateKey(messageIds, keyword)), result |-> Null]
  ELSE [cache |-> cache, result |-> cache[generateKey(messageIds, keyword)]]

\* set(messageIds, keyword, summary, tokensUsed, cost, ttlMs) at the time `time`
set(cache, messageIds, keyword, summary, tokensUsed, cost, ttlMs, time) ==
  [k \in DOMAIN cache \cup {generateKey(messageIds, keyword)} |->
     IF k = generateKey(messageIds, keyword)
     THEN [summary |-> summary, tokensUsed |-> tokensUsed, cost |-> cost, cachedAt |-> time,
           expiresAt |-> time + Max2(DefaultCacheDurationMs, IF ttlMs = Undefined THEN DefaultCacheDurationMs ELSE ttlMs.ms)]
     ELSE cache[k]]

\* cleanup() at the time `time`: the expired entries are deleted
cleanup(cache, time) == [k \in {e \in DOMAIN cache : time < cache[e].expiresAt} |-> cache[k]]

(***************************************************************************)
(* CronManager: one scheduled digest task per guild.  A cron expression is *)
(* the sequence of its fields, a field the wildcard or a number.           *)
(***************************************************************************)
Star == [star |-> TRUE]
fieldValue(n) == [value |-> n]

\* the ranges of the five fields: minute, hour, day of month, month, day of week
CronRanges == <<[lo |-> 0, hi |-> 59], [lo |-> 0, hi |-> 23], [lo |-> 1, hi |-> 31], [lo |-> 1, hi |-> 12], [lo |-> 0, hi |-> 6]>>

\* isValidCron(cronExpression) of cron-validator with its default options: five fields, each
\* the wildcard or a number of the field's range
isValidCron(cronExpression) ==
  /\ Len(cronExpression) = Len(CronRanges)
  /\ \A i \in 1..Len(cronExpression) :
       \/ cronExpression[i] = Star
       \/ /\ "value" \in DOMAIN cronExpression[i]
          /\ cronExpression[i].value >= CronRanges[i].lo
          /\ cronExpression[i].value <= CronRanges[i].hi

\* a CronManager without jobs, and the tasks node-cron holds (none)
newCronManager == [jobs |-> [g \in Guilds |-> Null], tasks |-> <<>>]

\* a cancelJob that forgets the job without stopping its task
cancelJobForgetting(manager, guildId) ==
  IF manager.jobs[guildId] = Null THEN manager ELSE [manager EXCEPT !.jobs[guildId] = Null]

\* cancelJob(guildId): job.task.stop() and jobs.delete(guildId) when the guild has a job
cancelJob(manager, guildId) ==
  IF manager.jobs[guildId] = Null THEN manager
  ELSE [manager EXCEPT !.tasks[manager.jobs[guildId].task].running = FALSE, !.jobs[guildId] = Null]

\* cron.schedule(cronExpression, callback, { scheduled: true, timezone }) and jobs.set
scheduleJob(manager, guildId, cronExpression, timezone) ==
  [jobs |-> [manager.jobs EXCEPT ![guildId] = [task |-> Len(manager.tasks) + 1, cron |-> cronExpression, timezone |-> timezone]],
   tasks |-> Append(manager.tasks, [guildId |-> guildId, cron |-> cronExpression, timezone |-> timezone, running |-> TRUE])]

\* updateJob(guildId, cronExpression, timezone): [manager, threw]
updateJob(manager, guildId, cronExpression, timezone) ==
  IF ~isValidCron(cronExpression) THEN [manager |-> manager, threw |-> TRUE]
  ELSE [manager |-> scheduleJob(cancelJob(manager, guildId), guildId, cronExpression, timezone), threw |-> FALSE]

\* shutdown(): every job's task is stopped and the map is cleared
shutdown(manager) ==
  [jobs |-> [g \in DOMAIN manager.jobs |-> Null],
   tasks |-> [t \in 1..Len(manager.tasks) |->
                IF \E g \in DOMAIN manager.jobs : manager.jobs[g] # Null /\ manager.jobs[g].task = t
                THEN [manager.tasks[t] EXCEPT !.running = FALSE]
                ELSE manager.tasks[t]]]

(***************************************************************************)
(* The state of the bot that the digest pipeline reads and writes          *)
(***************************************************************************)
VARIABLES
  topicCache,   \* TopicService.cache, in insertion order
  cfgCache,     \* GuildFeatureConfigService.cache: guild -> config or Null
  now,          \* the wall clock, in hours
  collection,   \* the Message collection
  fetchCall,    \* the last ThreadFeatureExtractor.fetchFeatures call and what it returned
  features,     \* the features handed to ThreadScoringService.scoreThreads
  scoreCall,    \* the last scoreThreads call and what it returned
  analyzeCall,  \* the last ThemeClusterService.analyze / TopicCounterService.count call
  sumInput,     \* the messages handed to Summarizer.summarize
  sumTopic,     \* the topic label handed to Summarizer.summarize
  prevCall,     \* the summarize call before the last one
  lastCall,     \* the last summarize call and what it returned
  cfgStore,     \* the GuildFeatureConfig collection: guild -> the stored document, or Null
  cfgLog,       \* guild -> channel -> the last multiplier operation completed on it
  runs,         \* digest request -> the locals of its generateDigest call
  scratch,      \* the accumulator map the last fetchFeatures call built
  clock,        \* the time of the timers, in milliseconds
  cleanupTimers,\* the interaction's entry of cleanupTimers, the runtime's pending timeouts, the timeouts created
  inflight,     \* the replyEphemeral / editEphemeral calls that await Discord
  cleanupLog,   \* the calls made on the interaction and the deletions requested
  client,       \* whether NotificationService.initialize has set the client
  subscriptionStore, \* the UserSubscription document of the user in the guild, or Null
  digestHistory,\* the DigestHistory collection, in creation order
  saveCount,    \* the subscription.save() calls so far
  notifications,\* notifyUser call -> its position and its locals
  limiter,      \* the fields of a RateLimiter, and where its processQueue loop stands
  limiterLog,   \* the tasks scheduled on it, the tasks started and when, the tasks executing
  reminderStore,   \* the Reminder collection, in insertion order
  reminderService, \* the fields of the ReminderService
  reminderCalls,   \* the processDueReminders calls of the poller and what they handled
  summaryCache,    \* SummaryCache.cache: key -> cached summary
  cacheLog,        \* the set() calls made on the cache, and the get() call if it was the last call
  cronJobs,        \* CronManager.jobs: guild -> job or Null
  cronTasks,       \* the tasks cron.schedule created, each running or stopped
  cronLog          \* the last call made on the CronManager and what it found

\* the state beside the digest pipeline's
pipelineVars == <<topicCache, cfgCache, cfgStore, now, collection, fetchCall, features, scoreCall, analyzeCall,
                  sumInput, sumTopic, prevCall, lastCall>>
digestVars == <<runs, scratch>>
cleanupVars == <<clock, cleanupTimers, inflight, cleanupLog>>
notifyVars == <<client, subscriptionStore, digestHistory, saveCount, notifications>>
limiterVars == <<limiter, limiterLog>>
reminderVars == <<reminderStore, reminderService, reminderCalls>>
cacheVars == <<summaryCache, cacheLog>>
cronVars == <<cronJobs, cronTasks, cronLog>>
serviceVars == <<reminderVars, cacheVars, cronVars>>
sideVars == <<digestVars, cleanupVars, notifyVars, limiterVars, serviceVars>>
extVars == <<cfgLog, sideVars>>

vars == <<topicCache, cfgCache, now, collection, fetchCall, features, scoreCall, analyzeCall,
          sumInput, sumTopic, prevCall, lastCall, cfgStore, extVars>>

NoCall == [done |-> FALSE]

MaxStored == 3      \* messages in the collection, and messages behind a scored feature list
MaxLimit == 2       \* explicit query limits 1..MaxLimit (beside the default limit)
StartNow == 60
MaxNow == 61        \* the clock ticks up to this hour
MaxMessages == 3    \* messages handed to the summarizer

\* a topic an administrator saves over the seeded 'energy' topic
EditedTopic == [slug |-> <<"E","n","e","r","g","y">>, keywords |-> <<<<"p","e","r","m","i","t">>>>, bigrams |-> <<>>, boost |-> 20]

TopicLabels == {<<"e","n","e","r","g","y">>, <<"d","i","s","c","u","s","s","i","o","n">>}

\* taxonomies in which a topic lacks its bigram array, its keyword array, or both (slugs as seeded)
withoutField(topic, field) == [f \in DOMAIN topic \ {field} |-> topic[f]]
Taxonomies ==
  {[i \in 1..Len(SeededTopics) |-> IF i = 2 THEN withoutField(SeededTopics[i], "bigrams") ELSE SeededTopics[i]],
   [i \in 1..Len(SeededTopics) |-> IF i = 1 THEN withoutField(SeededTopics[i], "keywords") ELSE SeededTopics[i]],
   Append(SeededTopics, [slug |-> <<"n","e","w">>, boost |-> 10])}

\* the taxonomy with every missing array made an empty one
withArrays(cache) ==
  [i \in 1..Len(cache) |-> [slug |-> cache[i].slug, keywords |-> orEmpty(cache[i], "keywords"),
                            bigrams |-> orEmpty(cache[i], "bigrams"), boost |-> cache[i].boost]]

KeywordChoices == {AllKeywords, <<<<"g","r","i","d">>>>}
CutoffChoices == {0, 25}
LimitChoices == 1..MaxLimit \cup {DefaultLimit}

NaN == [finite |-> FALSE, value |-> 0]
WeightChoices == {[finite |-> TRUE, value |-> 0], [finite |-> TRUE, value |-> 7000], NaN}

\* the weights an administrator can pass: negative, inside the range, above it, NaN, Infinity
Infinity == [finite |-> FALSE, value |-> 1]
ConfigWeights == WeightChoices \cup {[finite |-> TRUE, value |-> 0 - 1500], [finite |-> TRUE, value |-> 2500], Infinity}

\* the records updateChannelMultipliers is given: empty, one channel, all channels, an empty channel id
MultiplierUpdates ==
  {<<>>}
    \cup {[c \in {channelId} |-> weight] : channelId \in Channels, weight \in ConfigWeights}
    \cup {[c \in Channels |-> weight] : weight \in ConfigWeights}
    \cup {[c \in {"", channelId} |-> [finite |-> TRUE, value |-> 3000]] : channelId \in Channels}

RECURSIVE SubLists(_, _)
SubLists(s, n) ==
  IF s = <<>> THEN {<<>>}
  ELSE LET rest == SubLists(Tail(s), n)
       IN  rest \cup {<<Head(s)>> \o t : t \in {u \in rest : Len(u) < n}}

Collections == {c \in SUBSET Range(IndexedMessages) : Cardinality(c) <= MaxStored}

\* the feature lists a digest run scores: what the extractor returns for a stored collection
\* a ThreadFeature without tokens: analyze accepts it, though the extractor's query only
\* returns messages with a matched keyword
withoutTokens(feature) == [feature EXCEPT !.matchedKeywords = <<>>, !.topicHits = <<>>]

NewsFeatures == fetchFeatures(Range(IndexedNews), SeededTopics, G1, NewsKeywords, 0, DefaultLimit)

\* the seeded taxonomy after an administrator added two topics
FiveTopics ==
  SeededTopics \o
    <<[slug |-> <<"t","r","a","n","s","i","t">>, keywords |-> <<<<"t","r","a","n","s","i","t">>>>, bigrams |-> <<>>, boost |-> 10],
      [slug |-> <<"p","e","r","m","i","t","s">>, keywords |-> <<<<"p","e","r","m","i","t">>>>, bigrams |-> <<>>, boost |-> 10]>>

\* two units without tokens
tokenlessFeatures(news) == <<withoutTokens(news[1]), withoutTokens(news[2])>>

\* what the extractor returns for the stored collections and for the news channels, the
\* token-less units alone and after a thread and a channel that share no token, and what the
\* extractor returns under a taxonomy of five topics
featureLists(collections, news) ==
  {fetchFeatures(c, SeededTopics, G1, AllKeywords, 0, DefaultLimit) : c \in collections}
    \cup {news, tokenlessFeatures(news)}
    \cup {fetchFeatures(c, SeededTopics, G1, AllKeywords, 0, DefaultLimit) \o tokenlessFeatures(news) :
            c \in {d \in collections : {m.messageId : m \in d} = {"m3", "m7"}}}
    \cup {fetchFeatures(c, FiveTopics, G1, AllKeywords, 0, DefaultLimit) :
            c \in {d \in collections : {m.messageId : m \in d} \in {{"m1", "m4"}, {"m1", "m3", "m4"}}}}

FeatureLists == UNION {featureLists(collections, news) : collections \in {Collections}, news \in {NewsFeatures}}

\* messages of a second guild, and the collections two digest requests read
GuildTwoMessages == <<
  [id |-> "k1", guildId |-> G2, channelId |-> "d1", isThread |-> FALSE, parentId |-> "", authorId |-> "a4", authorUsername |-> <<"d","a","n">>,
   createdAt |-> 45, reactions |-> <<>>,
   content |-> <<"G","r","i","d"," ","p","o","l","i","c","y"," ","a","g","r","e","e","d">>],
  [id |-> "k2", guildId |-> G2, channelId |-> "c1", isThread |-> FALSE, parentId |-> "", authorId |-> "a5", authorUsername |-> <<"e","v","e">>,
   createdAt |-> 55, reactions |-> <<>>,
   content |-> <<"p","e","r","m","i","t"," ","f","o","r"," ","t","r","a","n","s","i","t","?">>]>>

IndexedGuildTwo == <<indexMessage(GuildTwoMessages[1], AllKeywords), indexMessage(GuildTwoMessages[2], AllKeywords)>>

DigestCollections ==
  {{IndexedMessages[1], IndexedMessages[4]} \cup Range(IndexedGuildTwo),
   {IndexedMessages[3], IndexedMessages[5]} \cup {IndexedGuildTwo[1]},
   {IndexedGuildTwo[2]}}

\* the calls made on the interaction, their options, and the steps of the clock
MaxCalls == 3
MaxClock == 32000
MessageIdChoices == {NoMessageId, "123"}
TtlChoices == {Undefined, [ms |-> 1000]}
ClockPoints == {999, 1500}

\* the subscription of the user in the guild, the digests the generator returns, the times of calls
UserId == "user-1"
SubscriptionKeywords == <<"policy", "energy">>
Subscriptions ==
  {Null}
    \cup {[userId |-> UserId, guildId |-> G1, keywords |-> keywords, dmEnabled |-> dmEnabled, cooldownHours |-> cooldownHours,
           lastNotified |-> lastNotified] :
            keywords \in {SubscriptionKeywords}, dmEnabled \in BOOLEAN, cooldownHours \in {1, 24},
            lastNotified \in {<<>>, [k \in {"energy"} |-> 0], [k \in {"policy", "energy"} |-> 0]}}
    \cup {[userId |-> UserId, guildId |-> G1, keywords |-> <<>>, dmEnabled |-> TRUE, cooldownHours |-> 24, lastNotified |-> <<>>]}

EmptyDigest ==
  [threadDetails |-> <<>>,
   stats |-> [messageCount |-> 0, topicCount |-> 0, tokensUsed |-> [input |-> 0, output |-> 0], cost |-> 0,
              threadScores |-> <<>>, topTopics |-> <<>>, clusterLabels |-> <<>>]]

\* the digest of the notification test; the cost is in cents
TestDigest ==
  [threadDetails |-> <<[primaryTopic |-> "policy", channelId |-> "chan-1", threadId |-> "thread-1", messageCount |-> 5,
                        topics |-> <<[slug |-> "policy", weight |-> 62], [slug |-> "climate", weight |-> 34]>>]>>,
   stats |-> [messageCount |-> 5, topicCount |-> 1, tokensUsed |-> [input |-> 16, output |-> 8], cost |-> 27,
              threadScores |-> <<[key |-> "thread-1", score |-> 1234, participants |-> 4, messages |-> 5, decisionVerbHits |-> 2]>>,
              topTopics |-> <<[slug |-> "policy", count |-> 4]>>,
              clusterLabels |-> <<"policy / climate">>]]

DigestChoices == {EmptyDigest, TestDigest}
DmOutcomes == {"sent", "closed", "error"}
NotifyIds == {"n1", "n2"}
NotifyTimes == {HourMs - 1, HourMs, 24 * HourMs - 1, 24 * HourMs}

\* the schedule() calls made on a limiter, its delays, and the steps of its clock
MaxTasks == 3
StartMs == 100000
MaxMs == 103000
DelayChoices == {DefaultDelayMs, 400}
StepChoices == {400, 1000}

\* the reminders found in the database when the bot starts at ReminderStart: none; a backlog of twelve due
\* reminders stored in descending remindAt order, two pairs of them with equal remindAt; and a
\* store with a sent reminder, one left in processing by an earlier run, and one due later
MaxSchedules == 1
MaxTicks == 3
ReminderStart == 100000
ReminderTimes == {130000, 160000, 190000, 400000, 430000}
backlogReminder(i) ==
  newReminder(IF i = 4 THEN DmClosedUser ELSE "user-1",
              IF i \in {2, 7} THEN "channel" ELSE "dm",
              IF i = 2 THEN [id |-> "chan-1"] ELSE IF i = 7 THEN [id |-> GoneChannel] ELSE Undefined,
              (13 - i + (i % 2) * (IF i \in {5, 9} THEN 1 ELSE 0)) * 1000)
ReminderStores ==
  {<<>>,
   [i \in 1..12 |-> backlogReminder(i)],
   <<[newReminder("user-1", "dm", Undefined, 1000) EXCEPT !.status = "sent"],
     [newReminder("user-1", "dm", Undefined, 2000) EXCEPT !.status = "processing"],
     newReminder("user-1", "channel", [id |-> "chan-1"], 140000)>>}
TaskBehaviours == {"resolves", "rejects"}

\* the calls made on the summary cache: two keywords, the ids 12 and 5 in both orders and the
\* id 12 alone, no ttl, one below and one above the default; the clock readings around the
\* expiry times
MaxSets == 2
CacheKeywords == {<<"e", "n", "e", "r", "g", "y">>, <<"p", "o", "l", "i", "c", "y">>}
IdLists == {<<<<"1", "2">>, <<"5">>>>, <<<<"5">>, <<"1", "2">>>>, <<<<"1", "2">>>>}
CacheTtls == {Undefined, [ms |-> 3600000], [ms |-> 86400000]}
CacheTimes == {3600000, 21599999, 21600000, 86400000}

\* the calls made on the cron manager: expressions that cron-validator accepts (every day at
\* 09:00, every Monday at 18:30) and that it refuses (hour 24, four fields), two timezones
MaxCronTasks == 3
ValidExpressions == {<<fieldValue(0), fieldValue(9), Star, Star, Star>>, <<fieldValue(30), fieldValue(18), Star, Star, fieldValue(1)>>}
InvalidExpressions == {<<fieldValue(0), fieldValue(24), Star, Star, Star>>, <<fieldValue(0), fieldValue(9), Star, Star>>}
Timezones == {"UTC", "America/Toronto"}

\* the state beside the pipeline's before anything has run
ConfigIdle == cfgLog = [g \in Guilds |-> [c \in Channels |-> "never"]]

DigestIdle ==
  /\ runs = [r \in RunIds |-> idleRun]
  /\ scratch = <<>>

CleanupIdle ==
  /\ clock = 0
  /\ cleanupTimers = [map |-> NoTimer, pending |-> {}, created |-> 0]
  /\ inflight = {}
  /\ cleanupLog = [calls |-> <<>>, deleteReply |-> <<>>, deleteMessage |-> <<>>]

NotifyIdle ==
  /\ client = FALSE
  /\ subscriptionStore = Null
  /\ digestHistory = <<>>
  /\ saveCount = 0
  /\ notifications = [c \in NotifyIds |-> [pc |-> "idle"]]

LimiterIdle ==
  /\ limiter = newRateLimiter(DefaultDelayMs)
  /\ limiterLog = [scheduled |-> <<>>, behaviour |-> <<>>, starts |-> <<>>, running |-> {}, settled |-> <<>>]

ReminderIdle ==
  /\ reminderStore = <<>>
  /\ reminderService = newReminderService
  /\ reminderCalls = [passes |-> <<>>, scheduled |-> 0, shutdown |-> FALSE]

CacheIdle ==
  /\ summaryCache = <<>>
  /\ cacheLog = [sets |-> <<>>, got |-> Null]

CronIdle ==
  /\ cronJobs = newCronManager.jobs
  /\ cronTasks = newCronManager.tasks
  /\ cronLog = Null

ServicesIdle == ReminderIdle /\ CacheIdle /\ CronIdle

ExtIdle == ConfigIdle /\ DigestIdle /\ CleanupIdle /\ NotifyIdle /\ LimiterIdle /\ ServicesIdle

Idle ==
  /\ topicCache = SeededTopics
  /\ cfgCache = [g \in Guilds |-> Null]
  /\ cfgStore = [g \in Guilds |-> Null]
  /\ ExtIdle
  /\ now = StartNow
  /\ collection = {}
  /\ fetchCall = NoCall
  /\ features = <<>>
  /\ scoreCall = NoCall
  /\ analyzeCall = NoCall
  /\ sumInput = <<>>
  /\ sumTopic = <<>>
  /\ prevCall = NoCall
  /\ lastCall = NoCall

(***************************************************************************)
(* Actions                                                                 *)
(***************************************************************************)
TopicCreate ==
  /\ topicCache' = topicCreate(topicCache, EditedTopic)
  /\ UNCHANGED <<cfgCache, cfgStore, now, collection, fetchCall, features, scoreCall, analyzeCall, sumInput, sumTopic, prevCall, lastCall, extVars>>

TopicRemove ==
  /\ \E slug \in {EditedTopic.slug} :
       topicCache' = topicRemove(topicCache, slug)
  /\ UNCHANGED <<cfgCache, cfgStore, now, collection, fetchCall, features, scoreCall, analyzeCall, sumInput, sumTopic, prevCall, lastCall, extVars>>

IndexMessage ==
  /\ ~fetchCall.done
  /\ \E i \in 1..Len(DiscordMessages) :
       /\ IndexedMessages[i] \notin collection
       /\ Cardinality(collection) < MaxStored
       /\ collection' = collection \cup {IndexedMessages[i]}
  /\ UNCHANGED <<topicCache, cfgCache, cfgStore, now, fetchCall, features, scoreCall, analyzeCall, sumInput, sumTopic, prevCall, lastCall, extVars>>

FetchFeatures ==
  /\ ~fetchCall.done
  /\ \E keywords \in KeywordChoices, cutoffDate \in CutoffChoices, limit \in LimitChoices :
       fetchCall' = [done |-> TRUE,
                     keywords |-> keywords,
                     cutoffDate |-> cutoffDate,
                     limit |-> limit,
                     messages |-> messageFind(collection, G1, keywords, cutoffDate, limit),
                     topics |-> topicCache,
                     threw |-> fetchThrows(collection, topicCache, G1, keywords, cutoffDate, limit),
                     result |-> IF fetchThrows(collection, topicCache, G1, keywords, cutoffDate, limit) THEN <<>>
                                ELSE fetchFeatures(collection, topicCache, G1, keywords, cutoffDate, limit)]
  /\ UNCHANGED <<topicCache, cfgCache, cfgStore, now, collection, features, scoreCall, analyzeCall, sumInput, sumTopic, prevCall, lastCall, extVars>>

\* one completed call of setChannelMultiplier(guildId, channelId, weight)
SetMultiplier(guildId, channelId, weight) ==
  /\ cfgStore' = setChannelMultiplier(cfgStore, guildId, channelId, weight)
  /\ cfgCache' = cacheSet(cfgCache, guildId, cfgStore'[guildId])
  /\ cfgLog' = [cfgLog EXCEPT ![guildId][channelId] = "set"]
  /\ UNCHANGED <<topicCache, now, collection, fetchCall, features, scoreCall, analyzeCall, sumInput, sumTopic, prevCall, lastCall, sideVars>>

\* one completed call of clearChannelMultiplier(guildId, channelId): the cache is set if a document came back
ClearMultiplier(guildId, channelId) ==
  /\ cfgStore' = clearChannelMultiplier(cfgStore, guildId, channelId)
  /\ cfgCache' = IF cfgStore'[guildId] # Null THEN cacheSet(cfgCache, guildId, cfgStore'[guildId]) ELSE cfgCache
  /\ cfgLog' = [cfgLog EXCEPT ![guildId][channelId] = "cleared"]
  /\ UNCHANGED <<topicCache, now, collection, fetchCall, features, scoreCall, analyzeCall, sumInput, sumTopic, prevCall, lastCall, sideVars>>

SetChannelMultiplier ==
  /\ ~scoreCall.done
  /\ \E channelId \in Channels, weight \in WeightChoices : SetMultiplier(G1, channelId, weight)

ClearChannelMultiplier ==
  /\ ~scoreCall.done
  /\ \E channelId \in Channels : ClearMultiplier(G1, channelId)

\* initialize(guildId) or refresh(guildId): load the document, creating it when there is none
ConfigInitialize ==
  \E guildId \in Guilds :
    /\ cfgStore' = configInitialize(cfgStore, guildId)
    /\ cfgCache' = cacheSet(cfgCache, guildId, cfgStore'[guildId])
    /\ UNCHANGED <<topicCache, now, collection, fetchCall, features, scoreCall, analyzeCall, sumInput, sumTopic, prevCall, lastCall, extVars>>

ConfigSetMultiplier == \E guildId \in Guilds, channelId \in Channels, weight \in ConfigWeights : SetMultiplier(guildId, channelId, weight)

ConfigClearMultiplier == \E guildId \in Guilds, channelId \in Channels : ClearMultiplier(guildId, channelId)

\* one completed call of updateChannelMultipliers(guildId, multipliers)
ConfigUpdateMultipliers ==
  \E guildId \in Guilds, multipliers \in MultiplierUpdates :
    /\ cfgStore' = updateChannelMultipliers(cfgStore, cfgCache, guildId, multipliers)
    /\ cfgCache' = cacheSet(cfgCache, guildId, cfgStore'[guildId])
    /\ cfgLog' = [cfgLog EXCEPT ![guildId] = [c \in Channels |-> IF c \in DOMAIN multipliers THEN "set" ELSE cfgLog[guildId][c]]]
    /\ UNCHANGED <<topicCache, now, collection, fetchCall, features, scoreCall, analyzeCall, sumInput, sumTopic, prevCall, lastCall, sideVars>>

\* generateDigest from the answer of Message.find to the await of the header embed
RunStart(r) ==
  /\ runs[r].pc = "idle"
  /\ LET messages == messageFind(collection, runGuild(r), runKeywords(r), now - runHours(r), DefaultLimit)
         concurrent == \E o \in RunIds \ {r} : runs[o].pc = "threads"
     IN  IF Len(messages) = 0
         THEN /\ runs' = [runs EXCEPT ![r] = emptyRun(runGuild(r), concurrent)]
              /\ scratch' = scratch
         ELSE /\ scratch' = groupMessages(messages, 1, topicList(topicCache), runGuild(r), newGrouped(scratch))
              /\ runs' = [runs EXCEPT ![r] = startedRun(runGuild(r), concurrent, topicCache, cfgCache, now,
                                                        featuresOf(scratch', runGuild(r)))]
  /\ UNCHANGED <<pipelineVars, cfgLog, cleanupVars, notifyVars, limiterVars, serviceVars>>

\* one pass of the loop over the top scores: buildThreadEmbed up to its await
RunThread(r) ==
  /\ runs[r].pc = "threads"
  /\ runs' = [runs EXCEPT ![r] = summarizedRun(runs[r], topicCache)]
  /\ UNCHANGED <<pipelineVars, cfgLog, scratch, cleanupVars, notifyVars, limiterVars, serviceVars>>

DigestStart == \E r \in RunIds : RunStart(r)
DigestThread == \E r \in RunIds : RunThread(r)

\* a call of scheduleInteractionCleanup(interaction, options) by a command
ScheduleCleanup ==
  /\ Len(cleanupLog.calls) < MaxCalls
  /\ \E messageId \in MessageIdChoices, ttlMs \in TtlChoices :
       /\ cleanupTimers' = scheduleInteractionCleanup(cleanupTimers, messageId, ttlMs, clock)
       /\ cleanupLog' = [cleanupLog EXCEPT !.calls = Append(@, [kind |-> "schedule", at |-> clock, ttlMs |-> ttlOrDefault(ttlMs),
                                                               messageId |-> messageId, status |-> "scheduled"])]
  /\ UNCHANGED <<pipelineVars, cfgLog, digestVars, notifyVars, clock, inflight, limiterVars, serviceVars>>

\* replyEphemeral(interaction, options, ttlMs) up to its await of interaction.reply
ReplyEphemeral ==
  /\ Len(cleanupLog.calls) < MaxCalls
  /\ \E ttlMs \in TtlChoices :
       /\ inflight' = inflight \cup {[call |-> Len(cleanupLog.calls) + 1, ttlMs |-> ttlOrDefault(ttlMs)]}
       /\ cleanupLog' = [cleanupLog EXCEPT !.calls = Append(@, [kind |-> "reply", at |-> clock, ttlMs |-> ttlOrDefault(ttlMs),
                                                               messageId |-> NoMessageId, status |-> "pending"])]
  /\ UNCHANGED <<pipelineVars, cfgLog, digestVars, notifyVars, clock, cleanupTimers, limiterVars, serviceVars>>

\* editEphemeral(interaction, options, ttlMs) up to its await of interaction.editReply
EditEphemeral ==
  /\ Len(cleanupLog.calls) < MaxCalls
  /\ \E ttlMs \in TtlChoices :
       /\ inflight' = inflight \cup {[call |-> Len(cleanupLog.calls) + 1, ttlMs |-> ttlOrDefault(ttlMs)]}
       /\ cleanupLog' = [cleanupLog EXCEPT !.calls = Append(@, [kind |-> "edit", at |-> clock, ttlMs |-> ttlOrDefault(ttlMs),
                                                               messageId |-> NoMessageId, status |-> "pending"])]
  /\ UNCHANGED <<pipelineVars, cfgLog, digestVars, notifyVars, clock, cleanupTimers, limiterVars, serviceVars>>

\* interaction.reply / editReply resolves: the call goes on to scheduleInteractionCleanup(interaction, { ttlMs })
RequestResolves ==
  /\ \E request \in inflight :
       /\ inflight' = inflight \ {request}
       /\ cleanupTimers' = scheduleInteractionCleanup(cleanupTimers, NoMessageId, [ms |-> request.ttlMs], clock)
       /\ cleanupLog' = [cleanupLog EXCEPT !.calls[request.call].status = "scheduled"]
  /\ UNCHANGED <<pipelineVars, cfgLog, digestVars, notifyVars, clock, limiterVars, serviceVars>>

\* interaction.reply / editReply rejects: the call throws and schedules nothing
RequestRejects ==
  /\ \E request \in inflight :
       /\ inflight' = inflight \ {request}
       /\ cleanupLog' = [cleanupLog EXCEPT !.calls[request.call].status = "failed"]
  /\ UNCHANGED <<pipelineVars, cfgLog, digestVars, notifyVars, clock, cleanupTimers, limiterVars, serviceVars>>

\* a timeout that is due runs its callback
TimerFires ==
  /\ \E timeout \in cleanupTimers.pending :
       /\ timeout.due <= clock
       /\ cleanupTimers' = timeoutCallback(cleanupTimers, timeout)
       /\ cleanupLog' = IF timeout.messageId # NoMessageId
                        THEN [cleanupLog EXCEPT !.deleteMessage = Append(@, [at |-> clock, messageId |-> timeout.messageId])]
                        ELSE [cleanupLog EXCEPT !.deleteReply = Append(@, [at |-> clock, call |-> Len(cleanupLog.calls)])]
  /\ UNCHANGED <<pipelineVars, cfgLog, digestVars, notifyVars, clock, inflight, limiterVars, serviceVars>>

\* time passes, up to the next timeout that is due
AdvanceClock ==
  /\ \E time \in ClockPoints \cup {timeout.due : timeout \in cleanupTimers.pending} :
       /\ time > clock
       /\ time <= MaxClock
       /\ \A timeout \in cleanupTimers.pending : time <= timeout.due
       /\ clock' = time
  /\ UNCHANGED <<pipelineVars, cfgLog, digestVars, notifyVars, cleanupTimers, inflight, cleanupLog, limiterVars, serviceVars>>

\* initialize(client)
NotifyInitialize ==
  /\ ~client
  /\ client' = TRUE
  /\ UNCHANGED <<pipelineVars, cfgLog, digestVars, cleanupVars, subscriptionStore, digestHistory, saveCount, notifications, limiterVars, serviceVars>>

\* notifyUser(userId, guildId) up to its await of UserSubscription.findOne; without a client
\* it throws, and the catch block records the failed attempt
NotifyUser(c) ==
  /\ notifications[c].pc = "idle"
  /\ IF client
     THEN /\ notifications' = [notifications EXCEPT ![c] = [pc |-> "finding", calledAt |-> clock, stored |-> subscriptionStore]]
          /\ UNCHANGED digestHistory
     ELSE /\ notifications' = [notifications EXCEPT ![c] =
                                 [pc |-> "done", calledAt |-> clock, stored |-> subscriptionStore, outcome |-> "none",
                                  result |-> [success |-> FALSE, reason |-> [text |-> "NotificationService not initialized"]]]]
          /\ digestHistory' = Append(digestHistory, failedAttemptRecord(G1, UserId, "NotificationService not initialized"))
  /\ UNCHANGED <<pipelineVars, cfgLog, digestVars, cleanupVars, client, subscriptionStore, saveCount, limiterVars, serviceVars>>

\* findOne resolves: deliverSubscriptionDigest up to its await of the digest generator
NotifyFound(c) ==
  /\ notifications[c].pc = "finding"
  /\ notifications' = [notifications EXCEPT ![c] =
       IF subscriptionStore = Null
       THEN [@ EXCEPT !.pc = "done"] @@ [loaded |-> Null, checkedAt |-> clock, outcome |-> "none",
                                         result |-> [success |-> FALSE, reason |-> [text |-> "Subscription not found"]]]
       ELSE IF ~assessEligibility(subscriptionStore, clock).eligible
       THEN [@ EXCEPT !.pc = "done"] @@ [loaded |-> subscriptionStore, checkedAt |-> clock, outcome |-> "none",
                                         result |-> [success |-> FALSE, reason |-> assessEligibility(subscriptionStore, clock).reason]]
       ELSE [@ EXCEPT !.pc = "generating"] @@ [loaded |-> subscriptionStore, checkedAt |-> clock]]
  /\ UNCHANGED <<pipelineVars, cfgLog, digestVars, cleanupVars, client, subscriptionStore, digestHistory, saveCount, limiterVars, serviceVars>>

\* the generator answers: without messages the call returns, otherwise it awaits sendDigestDM
NotifyGenerated(c) ==
  /\ notifications[c].pc = "generating"
  /\ \E digest \in DigestChoices :
       notifications' = [notifications EXCEPT ![c] =
         IF digest.stats.messageCount = 0
         THEN [@ EXCEPT !.pc = "done"] @@ [digest |-> digest, outcome |-> "none",
                                           result |-> [success |-> FALSE, reason |-> [text |-> "No new messages"]]]
         ELSE [@ EXCEPT !.pc = "sending"] @@ [digest |-> digest]]
  /\ UNCHANGED <<pipelineVars, cfgLog, digestVars, cleanupVars, client, subscriptionStore, digestHistory, saveCount, limiterVars, serviceVars>>

\* sendDigestDM answers: the rest of deliverSubscriptionDigest, its writes in their order
NotifyDelivered(c) ==
  /\ notifications[c].pc = "sending"
  /\ \E outcome \in DmOutcomes :
       LET db == deliverSubscriptionDigest([subscription |-> subscriptionStore, history |-> digestHistory, saves |-> saveCount],
                                           notifications[c].loaded, G1, notifications[c].digest, outcome, clock)
       IN  /\ subscriptionStore' = db.subscription
           /\ digestHistory' = db.history
           /\ saveCount' = db.saves
           /\ notifications' = [notifications EXCEPT ![c] =
                [@ EXCEPT !.pc = "done"] @@ [outcome |-> outcome, deliveredAt |-> clock, result |-> sendDigestDM(outcome),
                                             before |-> [subscription |-> subscriptionStore, history |-> digestHistory, saves |-> saveCount],
                                             after |-> db]]
  /\ UNCHANGED <<pipelineVars, cfgLog, digestVars, cleanupVars, client, limiterVars, serviceVars>>

\* time passes between the steps of the notification calls
NotifyTimePasses ==
  /\ \E time \in NotifyTimes : time > clock /\ clock' = time
  /\ UNCHANGED <<pipelineVars, cfgLog, digestVars, cleanupTimers, inflight, cleanupLog, notifyVars, limiterVars, serviceVars>>

NotifyCall == \E c \in NotifyIds : NotifyUser(c)
NotifyFind == \E c \in NotifyIds : NotifyFound(c)
NotifyGenerate == \E c \in NotifyIds : NotifyGenerated(c)
NotifyDeliver == \E c \in NotifyIds : NotifyDelivered(c)

\* what a step of the limiter adds to the log: the task it started, at the time of the step
logStart(before, after) ==
  IF awaited(after) \ awaited(before) = {} THEN limiterLog
  ELSE [limiterLog EXCEPT !.starts = Append(@, [task |-> CHOOSE t \in awaited(after) \ awaited(before) : TRUE, at |-> clock]),
                          !.running = @ \cup (awaited(after) \ awaited(before))]

\* a caller schedules a task
LimiterSchedule ==
  /\ Len(limiterLog.scheduled) < MaxTasks
  /\ limiter' = schedule(limiter, Len(limiterLog.scheduled) + 1, clock)
  /\ \E behaviour \in TaskBehaviours :
       limiterLog' = [logStart(limiter, limiter') EXCEPT !.scheduled = Append(@, Len(limiterLog.scheduled) + 1),
                                                        !.behaviour = Append(@, behaviour)]
  /\ UNCHANGED <<pipelineVars, cfgLog, digestVars, cleanupVars, notifyVars, serviceVars>>

\* the sleep of a processQueue call is over: the loop shifts the next task and starts it
LimiterWakes ==
  /\ \E k \in 1..Len(limiter.loops) :
       /\ limiter.loops[k].pc = "sleeping"
       /\ limiter.loops[k].wake <= clock
       /\ limiter' = startTask(limiter, k, clock)
       /\ limiterLog' = logStart(limiter, limiter')
  /\ UNCHANGED <<pipelineVars, cfgLog, digestVars, cleanupVars, notifyVars, serviceVars>>

\* an awaited task resolves or rejects: the loop goes on with the next pass
LimiterTaskSettles ==
  /\ \E k \in 1..Len(limiter.loops) :
       /\ limiter.loops[k].pc = "awaiting"
       /\ limiter' = taskSettled(limiter, k, wrapperOutcome(limiterLog.behaviour[limiter.loops[k].task]), clock)
       /\ limiterLog' = [logStart([limiter EXCEPT !.loops[k] = [pc |-> "entered"]], limiter')
                           EXCEPT !.running = @ \ {limiter.loops[k].task},
                                  !.settled = Append(@, [task |-> limiter.loops[k].task,
                                                         outcome |-> wrapperOutcome(limiterLog.behaviour[limiter.loops[k].task])])]
  /\ UNCHANGED <<pipelineVars, cfgLog, digestVars, cleanupVars, notifyVars, serviceVars>>

\* time passes; a sleep may end late, never early (beyond MaxMs only towards a pending wake-up)
LimiterTimePasses ==
  /\ \E d \in StepChoices :
       /\ \/ clock + d <= MaxMs
          \/ \E k \in 1..Len(limiter.loops) : limiter.loops[k].pc = "sleeping" /\ limiter.loops[k].wake > clock
       /\ clock' = clock + d
  /\ UNCHANGED <<pipelineVars, cfgLog, digestVars, cleanupTimers, inflight, cleanupLog, notifyVars, limiterVars, serviceVars>>

\* the bot is ready: reminderService.initialize(client); the process exits after shutdown()
ReminderInitialize ==
  /\ ~reminderCalls.shutdown
  /\ ~reminderService.client
  /\ reminderService' = initializeReminders(reminderService, clock)
  /\ UNCHANGED <<pipelineVars, cfgLog, digestVars, cleanupVars, notifyVars, limiterVars, reminderStore, reminderCalls, cacheVars, cronVars>>

\* the graceful shutdown: reminderService.shutdown(); a pass in flight goes on until the exit
ReminderShutdown ==
  /\ ~reminderCalls.shutdown
  /\ reminderService.client
  /\ reminderService' = shutdownReminders(reminderService)
  /\ reminderCalls' = [reminderCalls EXCEPT !.shutdown = TRUE]
  /\ UNCHANGED <<pipelineVars, cfgLog, digestVars, cleanupVars, notifyVars, limiterVars, reminderStore, cacheVars, cronVars>>

\* /remind: scheduleReminder with remindAt = Date.now() + delayMinutes * 60000
ReminderSchedule ==
  /\ reminderCalls.scheduled < MaxSchedules
  /\ reminderStore' = Append(reminderStore, newReminder("user-1", "dm", Undefined, clock + MIN_DELAY_MINUTES * 60000))
  /\ reminderCalls' = [reminderCalls EXCEPT !.scheduled = @ + 1]
  /\ UNCHANGED <<pipelineVars, cfgLog, digestVars, cleanupVars, notifyVars, limiterVars, reminderService, cacheVars, cronVars>>

\* the interval of the poller is due: its callback calls processDueReminders()
ReminderTick ==
  /\ reminderService.poller # Null
  /\ reminderService.poller.due <= clock
  /\ Len(reminderCalls.passes) < MaxTicks
  /\ LET call == processDueReminders(reminderService, clock)
     IN  /\ reminderService' = [call.service EXCEPT !.poller = [due |-> clock + POLL_INTERVAL_MS]]
         /\ reminderCalls' = [reminderCalls EXCEPT !.passes = Append(@, call.pass)]
  /\ UNCHANGED <<pipelineVars, cfgLog, digestVars, cleanupVars, notifyVars, limiterVars, reminderStore, cacheVars, cronVars>>

\* findOneAndUpdate answers: without a due reminder the loop breaks and finally clears the flag,
\* otherwise the reminder is in processing and the pass awaits deliver(reminder)
ReminderClaimed(p) ==
  /\ reminderCalls.passes[p].pc = "claiming"
  /\ IF firstDue(reminderStore, reminderCalls.passes[p].asked) = {}
     THEN /\ reminderCalls' = [reminderCalls EXCEPT !.passes[p].pc = "returned", !.passes[p].asked = Undefined]
          /\ reminderService' = [reminderService EXCEPT !.processing = FALSE]
          /\ UNCHANGED reminderStore
     ELSE /\ \E i \in firstDue(reminderStore, reminderCalls.passes[p].asked) :
               /\ reminderStore' = findOneAndUpdate(reminderStore, i)
               /\ reminderCalls' = [reminderCalls EXCEPT !.passes[p].pc = "delivering", !.passes[p].current = i]
          /\ UNCHANGED reminderService
  /\ UNCHANGED <<pipelineVars, cfgLog, digestVars, cleanupVars, notifyVars, limiterVars, cacheVars, cronVars>>

\* deliver answers: the pass sets the fields of its document and awaits reminder.save()
ReminderDelivered(p) ==
  /\ reminderCalls.passes[p].pc = "delivering"
  /\ reminderCalls' = [reminderCalls EXCEPT
       !.passes[p].pc = "saving",
       !.passes[p].handled = Append(@, [reminder |-> reminderCalls.passes[p].current,
                                        remindAt |-> reminderStore[reminderCalls.passes[p].current].remindAt,
                                        result |-> deliver(reminderService, reminderStore[reminderCalls.passes[p].current])])]
  /\ UNCHANGED <<pipelineVars, cfgLog, digestVars, cleanupVars, notifyVars, limiterVars, reminderStore, reminderService, cacheVars, cronVars>>

\* save answers: processed += 1, and the loop asks for the next reminder or ends at BATCH_LIMIT
ReminderSaved(p) ==
  /\ reminderCalls.passes[p].pc = "saving"
  /\ LET pass == reminderCalls.passes[p]
         processed == pass.processed + 1
     IN  /\ reminderStore' = saveDelivered(reminderStore, pass.current, pass.handled[Len(pass.handled)].result)
         /\ reminderCalls' = [reminderCalls EXCEPT !.passes[p].processed = processed,
                                                   !.passes[p].pc = IF processed < BATCH_LIMIT THEN "claiming" ELSE "returned",
                                                   !.passes[p].asked = IF processed < BATCH_LIMIT THEN clock ELSE Undefined]
         /\ reminderService' = IF processed < BATCH_LIMIT THEN reminderService ELSE [reminderService EXCEPT !.processing = FALSE]
  /\ UNCHANGED <<pipelineVars, cfgLog, digestVars, cleanupVars, notifyVars, limiterVars, cacheVars, cronVars>>

\* time passes between the steps of the reminder service
ReminderTimePasses ==
  /\ \E time \in ReminderTimes : time > clock /\ clock' = time
  /\ UNCHANGED <<pipelineVars, cfgLog, digestVars, cleanupTimers, inflight, cleanupLog, notifyVars, limiterVars, serviceVars>>

ReminderClaim == \E p \in 1..Len(reminderCalls.passes) : ReminderClaimed(p)
ReminderDeliver == \E p \in 1..Len(reminderCalls.passes) : ReminderDelivered(p)
ReminderSave == \E p \in 1..Len(reminderCalls.passes) : ReminderSaved(p)

\* generateSummary stores a fresh summary: summaryCache.set(messageIds, keyword, ..., ttlMs)
CacheSet ==
  /\ Len(cacheLog.sets) < MaxSets
  /\ \E messageIds \in IdLists, keyword \in CacheKeywords, ttlMs \in CacheTtls :
       /\ summaryCache' = set(summaryCache, messageIds, keyword, Len(cacheLog.sets) + 1, [input |-> 16, output |-> 8], 27, ttlMs, clock)
       /\ cacheLog' = [sets |-> Append(cacheLog.sets, [messageIds |-> messageIds, keyword |-> keyword, ttlMs |-> ttlMs,
                                                        summary |-> Len(cacheLog.sets) + 1, at |-> clock]),
                       got |-> Null]
  /\ UNCHANGED <<pipelineVars, cfgLog, digestVars, cleanupVars, notifyVars, limiterVars, reminderVars, cronVars>>

\* generateSummary asks the cache: summaryCache.get(messageIds, keyword)
CacheGet ==
  /\ \E messageIds \in IdLists, keyword \in CacheKeywords :
       /\ summaryCache' = get(summaryCache, messageIds, keyword, clock).cache
       /\ cacheLog' = [cacheLog EXCEPT !.got = [messageIds |-> messageIds, keyword |-> keyword, at |-> clock,
                                                result |-> get(summaryCache, messageIds, keyword, clock).result]]
  /\ UNCHANGED <<pipelineVars, cfgLog, digestVars, cleanupVars, notifyVars, limiterVars, reminderVars, cronVars>>

\* the hourly interval: summaryCache.cleanup()
CacheCleanup ==
  /\ clock >= CleanupIntervalMs
  /\ summaryCache' = cleanup(summaryCache, clock)
  /\ cacheLog' = [cacheLog EXCEPT !.got = Null]
  /\ UNCHANGED <<pipelineVars, cfgLog, digestVars, cleanupVars, notifyVars, limiterVars, reminderVars, cronVars>>

\* time passes between the calls on the cache
CacheTimePasses ==
  /\ \E time \in CacheTimes : time > clock /\ clock' = time
  /\ cacheLog' = [cacheLog EXCEPT !.got = Null]
  /\ UNCHANGED <<pipelineVars, cfgLog, digestVars, cleanupTimers, inflight, cleanupLog, notifyVars, limiterVars, reminderVars, summaryCache, cronVars>>

\* /schedule or initialize: cronManager.updateJob(guildId, cronExpression, timezone)
CronUpdateJob ==
  /\ \E guildId \in Guilds, cronExpression \in ValidExpressions \cup InvalidExpressions, timezone \in Timezones :
       /\ isValidCron(cronExpression) => Len(cronTasks) < MaxCronTasks
       /\ LET call == updateJob([jobs |-> cronJobs, tasks |-> cronTasks], guildId, cronExpression, timezone)
          IN  /\ cronJobs' = call.manager.jobs
              /\ cronTasks' = call.manager.tasks
              /\ cronLog' = [call |-> "updateJob", guildId |-> guildId, cron |-> cronExpression, timezone |-> timezone,
                             threw |-> call.threw, before |-> [jobs |-> cronJobs, tasks |-> cronTasks]]
  /\ UNCHANGED <<pipelineVars, cfgLog, digestVars, cleanupVars, notifyVars, limiterVars, reminderVars, cacheVars>>

\* the schedule is disabled: cronManager.cancelJob(guildId)
CronCancelJob ==
  /\ \E guildId \in Guilds :
       /\ cronJobs' = cancelJob([jobs |-> cronJobs, tasks |-> cronTasks], guildId).jobs
       /\ cronTasks' = cancelJob([jobs |-> cronJobs, tasks |-> cronTasks], guildId).tasks
       /\ cronLog' = [call |-> "cancelJob", guildId |-> guildId, threw |-> FALSE, before |-> [jobs |-> cronJobs, tasks |-> cronTasks]]
  /\ UNCHANGED <<pipelineVars, cfgLog, digestVars, cleanupVars, notifyVars, limiterVars, reminderVars, cacheVars>>

\* cronManager.shutdown()
CronShutdown ==
  /\ cronJobs' = shutdown([jobs |-> cronJobs, tasks |-> cronTasks]).jobs
  /\ cronTasks' = shutdown([jobs |-> cronJobs, tasks |-> cronTasks]).tasks
  /\ cronLog' = [call |-> "shutdown", threw |-> FALSE, before |-> [jobs |-> cronJobs, tasks |-> cronTasks]]
  /\ UNCHANGED <<pipelineVars, cfgLog, digestVars, cleanupVars, notifyVars, limiterVars, reminderVars, cacheVars>>

Tick ==
  /\ ~scoreCall.done
  /\ now < MaxNow
  /\ now' = now + 1
  /\ UNCHANGED <<topicCache, cfgCache, cfgStore, collection, fetchCall, features, scoreCall, analyzeCall, sumInput, sumTopic, prevCall, lastCall, extVars>>

ScoreThreads ==
  /\ ~scoreCall.done
  /\ scoreCall' = [done |-> TRUE,
                   features |-> features,
                   multipliers |-> [i \in 1..Len(features) |-> getChannelMultiplier(cfgCache, G1, features[i].channelId)],
                   result |-> scoreThreads(cfgCache, G1, features, now)]
  /\ UNCHANGED <<topicCache, cfgCache, cfgStore, now, collection, fetchCall, features, analyzeCall, sumInput, sumTopic, prevCall, lastCall, extVars>>

Analyze ==
  /\ scoreCall.done
  /\ ~analyzeCall.done
  /\ analyzeCall' = [done |-> TRUE,
                     scores |-> scoreCall.result,
                     result |-> analyze(scoreCall.result),
                     topics |-> topicCount(scoreCall.result)]
  /\ UNCHANGED <<topicCache, cfgCache, cfgStore, now, collection, fetchCall, features, scoreCall, sumInput, sumTopic, prevCall, lastCall, extVars>>

Summarize ==
  /\ prevCall' = lastCall
  /\ lastCall' =
       LET call(steps) ==
             [done |-> TRUE,
              messages |-> sumInput,
              topic |-> sumTopic,
              topicInfo |-> topicFind(topicCache, sumTopic),
              sentences |-> Len(steps.sentences),
              picked |-> Len(steps.selected),
              scores |-> steps.scores,
              selected |-> steps.selected,
              kept |-> [i \in 1..Len(steps.capped) |-> Len(steps.capped[i].original)],
              keptPositions |-> [i \in 1..Len(steps.capped) |-> steps.capped[i].position],
              result |-> summarize(sumInput, sumTopic, topicCache)]
       IN  call(IF Len(sumInput) = 0 THEN [sentences |-> <<>>, scores |-> <<>>, selected |-> <<>>, capped |-> <<>>]
                ELSE summarizeSteps(sumInput, sumTopic, topicCache))
  /\ UNCHANGED <<topicCache, cfgCache, cfgStore, now, collection, fetchCall, features, scoreCall, analyzeCall, sumInput, sumTopic, extVars>>

(***************************************************************************)
(* Specifications                                                          *)
(***************************************************************************)
\* the indexer fills the collection, administrators edit the taxonomy, a digest run extracts
InitFeat == Idle

NextFeat == IndexMessage \/ TopicCreate \/ TopicRemove \/ FetchFeatures

SpecFeat == InitFeat /\ [][NextFeat]_vars

\* a digest run scores and clusters an extracted feature list while administrators set multipliers
InitRank ==
  /\ features \in FeatureLists
  /\ topicCache = SeededTopics
  /\ cfgCache = [g \in Guilds |-> Null]
  /\ cfgStore = [g \in Guilds |-> Null]
  /\ ExtIdle
  /\ now = StartNow
  /\ collection = {}
  /\ fetchCall = NoCall
  /\ scoreCall = NoCall
  /\ analyzeCall = NoCall
  /\ sumInput = <<>>
  /\ sumTopic = <<>>
  /\ prevCall = NoCall
  /\ lastCall = NoCall

NextRank == SetChannelMultiplier \/ ClearChannelMultiplier \/ Tick \/ ScoreThreads \/ Analyze

SpecRank == InitRank /\ [][NextRank]_vars

\* the summarizer is called again and again on a thread while administrators edit the taxonomy
InitSum ==
  /\ sumInput \in SubLists(SummaryMessages, MaxMessages)
  /\ sumTopic \in TopicLabels
  /\ topicCache = SeededTopics
  /\ cfgCache = [g \in Guilds |-> Null]
  /\ cfgStore = [g \in Guilds |-> Null]
  /\ ExtIdle
  /\ now = StartNow
  /\ collection = {}
  /\ fetchCall = NoCall
  /\ features = <<>>
  /\ scoreCall = NoCall
  /\ analyzeCall = NoCall
  /\ prevCall = NoCall
  /\ lastCall = NoCall

NextSum == TopicCreate \/ TopicRemove \/ Summarize

SpecSum == InitSum /\ [][NextSum]_vars

\* feature extraction under a taxonomy whose topics lack arrays
InitTaxonomy ==
  /\ topicCache \in Taxonomies
  /\ cfgCache = [g \in Guilds |-> Null]
  /\ cfgStore = [g \in Guilds |-> Null]
  /\ ExtIdle
  /\ now = StartNow
  /\ collection = {}
  /\ fetchCall = NoCall
  /\ features = <<>>
  /\ scoreCall = NoCall
  /\ analyzeCall = NoCall
  /\ sumInput = <<>>
  /\ sumTopic = <<>>
  /\ prevCall = NoCall
  /\ lastCall = NoCall

NextTaxonomy == IndexMessage \/ FetchFeatures

SpecTaxonomy == InitTaxonomy /\ [][NextTaxonomy]_vars

\* administrators set, update and clear channel multipliers of the guilds
InitConfig == Idle

NextConfig == ConfigInitialize \/ ConfigSetMultiplier \/ ConfigClearMultiplier \/ ConfigUpdateMultipliers

SpecConfig == InitConfig /\ [][NextConfig]_vars

\* two digest requests are computed while an administrator saves a topic
InitDigest ==
  /\ collection \in DigestCollections
  /\ topicCache = SeededTopics
  /\ cfgCache = [g \in Guilds |-> Null]
  /\ cfgStore = [g \in Guilds |-> Null]
  /\ ExtIdle
  /\ now = StartNow
  /\ fetchCall = NoCall
  /\ features = <<>>
  /\ scoreCall = NoCall
  /\ analyzeCall = NoCall
  /\ sumInput = <<>>
  /\ sumTopic = <<>>
  /\ prevCall = NoCall
  /\ lastCall = NoCall

NextDigest == DigestStart \/ DigestThread \/ TopicCreate

SpecDigest == InitDigest /\ [][NextDigest]_vars

\* commands reply to one interaction, edit the reply and schedule its cleanup while time passes
InitCleanup == Idle

NextCleanup == ScheduleCleanup \/ ReplyEphemeral \/ EditEphemeral \/ RequestResolves \/ RequestRejects \/ TimerFires \/ AdvanceClock

SpecCleanup == InitCleanup /\ [][NextCleanup]_vars

\* two notifyUser calls for one subscriber, overlapping or one after the other, while time passes
InitNotify ==
  /\ topicCache = SeededTopics
  /\ cfgCache = [g \in Guilds |-> Null]
  /\ cfgStore = [g \in Guilds |-> Null]
  /\ ConfigIdle
  /\ DigestIdle
  /\ CleanupIdle
  /\ LimiterIdle
  /\ ServicesIdle
  /\ client = FALSE
  /\ subscriptionStore \in Subscriptions
  /\ digestHistory = <<>>
  /\ saveCount = 0
  /\ notifications = [c \in NotifyIds |-> [pc |-> "idle"]]
  /\ now = StartNow
  /\ collection = {}
  /\ fetchCall = NoCall
  /\ features = <<>>
  /\ scoreCall = NoCall
  /\ analyzeCall = NoCall
  /\ sumInput = <<>>
  /\ sumTopic = <<>>
  /\ prevCall = NoCall
  /\ lastCall = NoCall

NextNotify == NotifyInitialize \/ NotifyCall \/ NotifyFind \/ NotifyGenerate \/ NotifyDeliver \/ NotifyTimePasses

SpecNotify == InitNotify /\ [][NextNotify]_vars

\* callers schedule tasks on one limiter while time passes and tasks settle
InitLimiter ==
  /\ topicCache = SeededTopics
  /\ cfgCache = [g \in Guilds |-> Null]
  /\ cfgStore = [g \in Guilds |-> Null]
  /\ ConfigIdle
  /\ DigestIdle
  /\ NotifyIdle
  /\ ServicesIdle
  /\ clock = StartMs
  /\ cleanupTimers = [map |-> NoTimer, pending |-> {}, created |-> 0]
  /\ inflight = {}
  /\ cleanupLog = [calls |-> <<>>, deleteReply |-> <<>>, deleteMessage |-> <<>>]
  /\ \E delayMs \in DelayChoices : limiter = newRateLimiter(delayMs)
  /\ limiterLog = [scheduled |-> <<>>, behaviour |-> <<>>, starts |-> <<>>, running |-> {}, settled |-> <<>>]
  /\ now = StartNow
  /\ collection = {}
  /\ fetchCall = NoCall
  /\ features = <<>>
  /\ scoreCall = NoCall
  /\ analyzeCall = NoCall
  /\ sumInput = <<>>
  /\ sumTopic = <<>>
  /\ prevCall = NoCall
  /\ lastCall = NoCall

NextLimiter == LimiterSchedule \/ LimiterWakes \/ LimiterTaskSettles \/ LimiterTimePasses

SpecLimiter == InitLimiter /\ [][NextLimiter]_vars

\* the same with the event loop's guarantees: time passes, a due timeout runs its callback, and
\* the tasks handed to the limiter settle
SpecLimiterFair ==
  /\ SpecLimiter
  /\ WF_vars(LimiterTimePasses)
  /\ WF_vars(LimiterWakes)
  /\ WF_vars(LimiterTaskSettles)

\* the reminder service from the start of the bot to its shutdown, with /remind calls, while
\* time passes
InitReminder ==
  /\ topicCache = SeededTopics
  /\ cfgCache = [g \in Guilds |-> Null]
  /\ cfgStore = [g \in Guilds |-> Null]
  /\ ConfigIdle
  /\ DigestIdle
  /\ NotifyIdle
  /\ LimiterIdle
  /\ CacheIdle
  /\ CronIdle
  /\ clock = ReminderStart
  /\ cleanupTimers = [map |-> NoTimer, pending |-> {}, created |-> 0]
  /\ inflight = {}
  /\ cleanupLog = [calls |-> <<>>, deleteReply |-> <<>>, deleteMessage |-> <<>>]
  /\ reminderStore \in ReminderStores
  /\ reminderService = newReminderService
  /\ reminderCalls = [passes |-> <<>>, scheduled |-> 0, shutdown |-> FALSE]
  /\ now = StartNow
  /\ collection = {}
  /\ fetchCall = NoCall
  /\ features = <<>>
  /\ scoreCall = NoCall
  /\ analyzeCall = NoCall
  /\ sumInput = <<>>
  /\ sumTopic = <<>>
  /\ prevCall = NoCall
  /\ lastCall = NoCall

NextReminder ==
  \/ ReminderInitialize \/ ReminderShutdown \/ ReminderSchedule \/ ReminderTick
  \/ ReminderClaim \/ ReminderDeliver \/ ReminderSave \/ ReminderTimePasses

SpecReminder == InitReminder /\ [][NextReminder]_vars

\* summaries are stored in the cache and asked for while time passes and the cleanup runs
InitCache == Idle

NextCache == CacheSet \/ CacheGet \/ CacheCleanup \/ CacheTimePasses

SpecCache == InitCache /\ [][NextCache]_vars

\* any sequence of updateJob, cancelJob and shutdown calls on the cron manager
InitCron == Idle

NextCron == CronUpdateJob \/ CronCancelJob \/ CronShutdown

SpecCron == InitCron /\ [][NextCron]_vars

(***************************************************************************)
(* Properties of the scoring service (SpecRank)                            *)
(***************************************************************************)
\* the position of a scored feature in the feature list scoreThreads was given (keys are distinct)
inputIndex(call, score) == CHOOSE i \in 1..Len(call.features) : call.features[i].key = score.feature.key

\* C1: every ThreadScore that scoreThreads returns has score = (participants + messageCount +
\* reactions + topicHits + links + decisions - timeDecay) x the multiplier getChannelMultiplier
\* gave for (guildId, feature.channelId) when scoreThreads ran, multiplier 0 and the default
\* multiplier of a channel without a configured one included.
C1_ScoreIsRawTimesMultiplier ==
  scoreCall.done =>
    /\ Len(scoreCall.result) = Len(scoreCall.features)
    /\ \A r \in 1..Len(scoreCall.result) :
         LET s == scoreCall.result[r]
             b == s.breakdown
         IN  /\ \E i \in 1..Len(scoreCall.features) : scoreCall.features[i] = s.feature
             /\ s.score = (b.participants + b.messageCount + b.reactions + b.topicHits + b.links + b.decisions
                           - b.timeDecay) * scoreCall.multipliers[inputIndex(scoreCall, s)]

\* scored: one channel with multiplier 0, one with the maximal multiplier, one without any
C1_Witness ==
  /\ scoreCall.done
  /\ cfgCache[G1] # Null
  /\ \E r1, r2, r3 \in 1..Len(scoreCall.result) :
       /\ scoreCall.multipliers[inputIndex(scoreCall, scoreCall.result[r1])] = 0
       /\ scoreCall.result[r1].score = 0
       /\ scoreCall.multipliers[inputIndex(scoreCall, scoreCall.result[r2])] = MaxMultiplier
       /\ scoreCall.result[r2].score > 0
       /\ scoreCall.result[r3].feature.channelId \notin DOMAIN cfgCache[G1].channelMultipliers
       /\ scoreCall.multipliers[inputIndex(scoreCall, scoreCall.result[r3])] = DefaultMultiplier
       /\ scoreCall.result[r3].breakdown.timeDecay > 0

\* C9: scoreThreads returns the scores in non-increasing order of score, and two features of
\* equal score keep the relative order they had in the feature list.
C9_SortedStableDescending ==
  scoreCall.done =>
    \A p, q \in 1..Len(scoreCall.result) :
      p < q =>
        /\ scoreCall.result[p].score >= scoreCall.result[q].score
        /\ scoreCall.result[p].score = scoreCall.result[q].score
             => inputIndex(scoreCall, scoreCall.result[p]) < inputIndex(scoreCall, scoreCall.result[q])

\* scored: the sort moved a feature forward, and two features tie on score
C9_Witness ==
  /\ scoreCall.done
  /\ \E p, q \in 1..Len(scoreCall.result) :
       /\ p < q
       /\ scoreCall.result[p].score = scoreCall.result[q].score
  /\ \E p, q \in 1..Len(scoreCall.result) :
       /\ p < q
       /\ scoreCall.result[p].score > scoreCall.result[q].score
       /\ inputIndex(scoreCall, scoreCall.result[p]) > inputIndex(scoreCall, scoreCall.result[q])

(***************************************************************************)
(* Properties of the cluster analyzer (SpecRank)                           *)
(***************************************************************************)
\* the places <<cluster, position>> at which a ThreadScore is a member
placesOf(clusters, score) ==
  {place \in UNION {{<<c, k>> : k \in 1..Len(clusters[c].members)} : c \in 1..Len(clusters)} :
     clusters[place[1]].members[place[2]] = score}

\* C2: the clusters analyze returns partition its input: every input unit is a member of
\* exactly one cluster, at one position, every member is an input unit, the cluster sizes add
\* up to the input length, and an empty input yields no clusters.
C2_ClustersPartitionInput ==
  analyzeCall.done =>
    LET clusters == analyzeCall.result.clusters
    IN  /\ \A i \in 1..Len(analyzeCall.scores) : Cardinality(placesOf(clusters, analyzeCall.scores[i])) = 1
        /\ \A c \in 1..Len(clusters) :
             /\ Len(clusters[c].members) >= 1
             /\ \A k \in 1..Len(clusters[c].members) : clusters[c].members[k] \in Range(analyzeCall.scores)
        /\ SumSeq([c \in 1..Len(clusters) |-> Len(clusters[c].members)]) = Len(analyzeCall.scores)
        /\ Len(analyzeCall.scores) = 0 => clusters = <<>>

\* analyzed: a unit that joined an earlier cluster is also similar to the seed of a later one
C2_Witness ==
  /\ analyzeCall.done
  /\ \E c1, c2 \in 1..Len(analyzeCall.result.clusters) :
       /\ c1 < c2
       /\ \E k \in 2..Len(analyzeCall.result.clusters[c1].members) :
            atLeastThreshold(cosineSimilarity(buildVector(analyzeCall.result.clusters[c2].members[1]),
                                              buildVector(analyzeCall.result.clusters[c1].members[k])))

\* the summed label weight keywordHits + 2 x bigramHits of a topic slug over the members
topicWeight(members, slug) ==
  SumSeq([k \in 1..Len(members) |->
            SumSeq([h \in 1..Len(members[k].feature.topicHits) |->
                      IF members[k].feature.topicHits[h].slug = slug
                      THEN members[k].feature.topicHits[h].keywordHits + members[k].feature.topicHits[h].bigramHits * 2
                      ELSE 0])])

topicSlugs(members) ==
  UNION {{members[k].feature.topicHits[h].slug : h \in 1..Len(members[k].feature.topicHits)} : k \in 1..Len(members)}

keyOf(message) == IF message.threadId # NoId THEN message.threadId ELSE message.channelId

\* the messages of the list that have the key, in list order
unitMessages(messages, key) == SelectSeq(messages, LAMBDA m : keyOf(m) = key)

firstIndexOf(messages, key) == CHOOSE i \in 1..Len(messages) : keyOf(messages[i]) = key /\ \A j \in 1..(i - 1) : keyOf(messages[j]) # key

\* C10: fetchFeatures returns one feature per distinct key (thread id, else channel id) of the
\* timestamp-ascending message list, each counting the messages of its key, in the order in
\* which the keys first appear in that list; an empty list yields an empty feature list.
C10_OneFeaturePerKey ==
  fetchCall.done =>
    LET messages == fetchCall.messages
        result == fetchCall.result
        keys == {keyOf(messages[i]) : i \in 1..Len(messages)}
    IN  /\ \A i, j \in 1..Len(messages) : i < j => messages[i].timestamp <= messages[j].timestamp
        /\ Len(result) = Cardinality(keys)
        /\ {result[f].key : f \in 1..Len(result)} = keys
        /\ \A f \in 1..Len(result) : result[f].messageCount = Len(unitMessages(messages, result[f].key))
        /\ \A f, g \in 1..Len(result) :
             f < g => firstIndexOf(messages, result[f].key) < firstIndexOf(messages, result[g].key)
        /\ messages = <<>> => result = <<>>

\* extracted: a thread whose messages enclose a message of a channel that has no thread id
C10_Witness ==
  /\ fetchCall.done
  /\ Len(fetchCall.result) >= 2
  /\ \E f, g \in 1..Len(fetchCall.result) :
       /\ f < g
       /\ fetchCall.result[f].threadId # NoId
       /\ fetchCall.result[f].key = fetchCall.result[f].threadId
       /\ fetchCall.result[f].messageCount >= 2
       /\ fetchCall.result[g].threadId = NoId
       /\ fetchCall.result[g].key = fetchCall.result[g].channelId
       /\ fetchCall.result[g].firstMessageAt < fetchCall.result[f].lastMessageAt

bulletLines(summary) ==
  Cardinality({i \in 1..Len(summary) : summary[i] = Bullet /\ (i = 1 \/ summary[i - 1] = "\n")})

\* C3: summarize returns at most 4 bullet lines, one per kept sentence, and the original
\* texts of the kept sentences total at most 380 characters unless exactly one is kept.
C3_AtMostFourBulletsWithinLimit ==
  lastCall.done =>
    /\ bulletLines(lastCall.result.summary) <= 4
    /\ lastCall.sentences > 0 => bulletLines(lastCall.result.summary) = Len(lastCall.kept)
    /\ Len(lastCall.result.selectedIds) <= 4
    /\ SumSeq(lastCall.kept) <= 380 \/ Len(lastCall.kept) = 1

\* summarized: the 380-character cap dropped a sentence that the selection had picked
C3_Witness ==
  /\ lastCall.done
  /\ lastCall.picked > Len(lastCall.kept)
  /\ Len(lastCall.kept) >= 2
  /\ bulletLines(lastCall.result.summary) = Len(lastCall.kept)

\* C4: when the message list is not empty and no sentence survives, summarize returns the first
\* 3 raw messages as bullets and their ids as selectedIds.
C4_FallbackToRawMessages ==
  (lastCall.done /\ Len(lastCall.messages) > 0 /\ lastCall.sentences = 0) =>
    LET top == SubSeq(lastCall.messages, 1, Min2(3, Len(lastCall.messages)))
    IN  /\ lastCall.result.selectedIds = [i \in 1..Len(top) |-> top[i].id]
        /\ lastCall.result.summary
             = joinLines([i \in 1..Len(top) |-> formatBullet(top[i].content, top[i].authorUsername)])

\* C5: for an empty message list and any topic label, summarize returns the fixed sentence,
\* no selected id, zero input and output tokens and zero cost.
C5_EmptyListGivesFixedSentence ==
  (lastCall.done /\ lastCall.messages = <<>>) =>
    /\ lastCall.result.summary = NoDiscussion
    /\ lastCall.result.selectedIds = <<>>
    /\ lastCall.result.tokensUsed = [input |-> 0, output |-> 0]
    /\ lastCall.result.cost = 0

\* summarized twice: an empty list, under a taxonomy that was edited in between
C5_Witness ==
  /\ prevCall.done
  /\ lastCall.done
  /\ lastCall.messages = <<>>
  /\ topicCache # SeededTopics
  /\ lastCall.result.summary = NoDiscussion

OtherChannel == "c9"

\* C11: after any sequence of completed setChannelMultiplier, updateChannelMultipliers and
\* clearChannelMultiplier calls, getChannelMultiplier is within [0, 5] for every guild and
\* channel, and is the default 1 for a channel without a stored multiplier (never set, or
\* cleared since it was last set) and for a guild without a cached configuration.
C11_MultiplierWithinRangeDefaultOne ==
  \A guildId \in Guilds :
    /\ \A channelId \in Channels \cup {OtherChannel} :
         /\ getChannelMultiplier(cfgCache, guildId, channelId) >= MinMultiplier
         /\ getChannelMultiplier(cfgCache, guildId, channelId) <= MaxMultiplier
         /\ cfgCache[guildId] = Null => getChannelMultiplier(cfgCache, guildId, channelId) = DefaultMultiplier
         /\ (cfgStore[guildId] = Null \/ channelId \notin DOMAIN cfgStore[guildId].channelMultipliers)
              => getChannelMultiplier(cfgCache, guildId, channelId) = DefaultMultiplier
    /\ \A channelId \in Channels :
         cfgLog[guildId][channelId] # "set" => getChannelMultiplier(cfgCache, guildId, channelId) = DefaultMultiplier
    /\ getChannelMultiplier(cfgCache, guildId, OtherChannel) = DefaultMultiplier

\* configured: in one guild a channel holds the upper bound and another was cleared after it
\* was set, while the other guild has a stored multiplier of 0
C11_Witness ==
  \E g1, g2 \in Guilds, c1, c2 \in Channels :
    /\ g1 # g2
    /\ c1 # c2
    /\ cfgLog[g1][c1] = "set"
    /\ getChannelMultiplier(cfgCache, g1, c1) = MaxMultiplier
    /\ cfgLog[g1][c2] = "cleared"
    /\ cfgStore[g1] # Null
    /\ getChannelMultiplier(cfgCache, g1, c2) = DefaultMultiplier
    /\ cfgLog[g2][c1] = "set"
    /\ getChannelMultiplier(cfgCache, g2, c1) = MinMultiplier

C12_MissingBigramsTreatedAsEmpty ==
  (fetchCall.done /\ \A i \in 1..Len(fetchCall.topics) : "keywords" \in DOMAIN fetchCall.topics[i]) =>
    /\ ~fetchCall.threw
    /\ fetchCall.result
         = fetchFeatures(collection, withArrays(fetchCall.topics), G1, fetchCall.keywords, fetchCall.cutoffDate, fetchCall.limit)

(***************************************************************************)
(* Properties of the cosine similarity (SpecRank)                          *)
(***************************************************************************)
\* C13: for the vectors of every two units handed to analyze, the cosine similarity is the same
\* in both argument orders and lies in [0, 1]: the exact quotient does, and the double the
\* code returns does not exceed 1.
C13_CosineSymmetricWithinUnitInterval ==
  analyzeCall.done =>
    \A i, j \in 1..Len(analyzeCall.scores) :
      LET a == buildVector(analyzeCall.scores[i])
          b == buildVector(analyzeCall.scores[j])
      IN  /\ cosineSimilarity(a, b) = cosineSimilarity(b, a)
          /\ cosineSimilarity(a, b).dot >= 0
          /\ cosineSimilarity(a, b).dot * cosineSimilarity(a, b).dot <= cosineSimilarity(a, b).norms
          /\ cosineSimilarity(a, b).rounding <= 0

\* the part of C13 that holds of the quotient before rounding: symmetric and within [0, 1]
C13_ExactCosineSymmetricWithinUnitInterval ==
  analyzeCall.done =>
    \A i, j \in 1..Len(analyzeCall.scores) :
      LET a == buildVector(analyzeCall.scores[i])
          b == buildVector(analyzeCall.scores[j])
      IN  /\ cosineSimilarity(a, b) = cosineSimilarity(b, a)
          /\ cosineSimilarity(a, b).dot >= 0
          /\ cosineSimilarity(a, b).dot * cosineSimilarity(a, b).dot <= cosineSimilarity(a, b).norms

\* the tokens of a vector
tokensOfVector(v) == {v[i].item : i \in 1..Len(v)}

\* C14: the cosine similarity of two vectors that share no token, or of which one has zero
\* norm, is exactly 0 and never the undefined quotient 0 / 0; a unit whose vector is empty is
\* alone in its cluster, also when another unit has an empty vector.
C14_ZeroSimilarityKeepsEmptyUnitsApart ==
  analyzeCall.done =>
    /\ \A i, j \in 1..Len(analyzeCall.scores) :
         LET a == buildVector(analyzeCall.scores[i])
             b == buildVector(analyzeCall.scores[j])
         IN  /\ cosineSimilarity(a, b).norms > 0
             /\ (tokensOfVector(a) \cap tokensOfVector(b) = {} \/ a = <<>> \/ b = <<>>)
                  => cosineSimilarity(a, b).dot = 0 /\ cosineSimilarity(a, b).rounding = 0
    /\ \A c \in 1..Len(analyzeCall.result.clusters) :
         (\E k \in 1..Len(analyzeCall.result.clusters[c].members) :
            buildVector(analyzeCall.result.clusters[c].members[k]) = <<>>)
           => Len(analyzeCall.result.clusters[c].members) = 1

\* analyzed: two units with empty vectors, each alone in a cluster, beside two units with
\* tokens that share none
C14_Witness ==
  /\ analyzeCall.done
  /\ \E c1, c2 \in 1..Len(analyzeCall.result.clusters) :
       /\ c1 # c2
       /\ Len(analyzeCall.result.clusters[c1].members) = 1
       /\ Len(analyzeCall.result.clusters[c2].members) = 1
       /\ buildVector(analyzeCall.result.clusters[c1].members[1]) = <<>>
       /\ buildVector(analyzeCall.result.clusters[c2].members[1]) = <<>>
  /\ \E i, j \in 1..Len(analyzeCall.scores) :
       /\ buildVector(analyzeCall.scores[i]) # <<>>
       /\ buildVector(analyzeCall.scores[j]) # <<>>
       /\ tokensOfVector(buildVector(analyzeCall.scores[i])) \cap tokensOfVector(buildVector(analyzeCall.scores[j])) = {}

(***************************************************************************)
(* Properties of the summary's bullets (SpecSum)                           *)
(***************************************************************************)
\* the lines of a text, split at each line feed
RECURSIVE linesOf(_)
linesOf(text) ==
  IF \A i \in 1..Len(text) : text[i] # "\n" THEN <<text>>
  ELSE LET cut == CHOOSE i \in 1..Len(text) : text[i] = "\n" /\ \A j \in 1..(i - 1) : text[j] # "\n"
       IN  <<SubSeq(text, 1, cut - 1)>> \o linesOf(SubSeq(text, cut + 1, Len(text)))

\* whether the line is the bullet of a sentence of the message: the bullet sign, the author,
\* and a text (cut at the preview length) that the message's cleaned content holds
bulletOf(line, message) ==
  LET prefix == <<Bullet, " ">> \o message.authorUsername \o <<":", " ">>
      text == SubSeq(line, Len(prefix) + 1, Len(line))
      shown == IF text # <<>> /\ text[Len(text)] = Ellipsis THEN SubSeq(text, 1, Len(text) - 1) ELSE text
  IN  /\ startsWithAt(line, 1, prefix)
      /\ shown # <<>>
      /\ includesText(collapseSpaces(stripFormatting(message.content)), shown)

\* C15: for a non-empty message list with a surviving sentence, the summary has one bullet
\* line per entry of selectedIds, in the same order, at least one; each entry is the id of an
\* input message whose author the bullet names and whose content holds the bullet's sentence;
\* tokensUsed and cost are zero.
C15_OneSelectedIdPerBullet ==
  (lastCall.done /\ Len(lastCall.messages) > 0 /\ lastCall.sentences > 0) =>
    LET lines == linesOf(lastCall.result.summary)
        ids == lastCall.result.selectedIds
    IN  /\ Len(ids) >= 1
        /\ Len(lines) = Len(ids)
        /\ bulletLines(lastCall.result.summary) = Len(ids)
        /\ \A i \in 1..Len(ids) :
             \E m \in 1..Len(lastCall.messages) :
               /\ lastCall.messages[m].id = ids[i]
               /\ bulletOf(lines[i], lastCall.messages[m])
        /\ lastCall.result.tokensUsed = [input |-> 0, output |-> 0]
        /\ lastCall.result.cost = 0

\* summarized: two bullets from one message and a bullet from another, one of them cut
C15_Witness ==
  /\ lastCall.done
  /\ \E i, j, k \in 1..Len(lastCall.result.selectedIds) :
       /\ i < j
       /\ lastCall.result.selectedIds[i] = lastCall.result.selectedIds[j]
       /\ lastCall.result.selectedIds[k] # lastCall.result.selectedIds[i]
  /\ \E i \in 1..Len(lastCall.result.summary) : lastCall.result.summary[i] = Ellipsis

aloneFeatures(r, run) ==
  fetchFeatures(collection, run.topics, runGuild(r), runKeywords(r), run.scoredAt - runHours(r), DefaultLimit)

\* C17: two digest computations that interleave at their awaits each produce the features,
\* scores, clusters and summaries of the computation run alone on the state it read: nothing
\* one computation built (accumulators, vectors, visited sets, sentence documents) reaches the other.
C17_InterleavedRunsComputeAsAlone ==
  \A r \in RunIds :
    /\ runs[r].pc = "done" /\ runs[r].features = <<>> =>
         messageFind(collection, runGuild(r), runKeywords(r), now - runHours(r), DefaultLimit) = <<>>
    /\ runs[r].pc # "idle" /\ runs[r].features # <<>> =>
         /\ runs[r].features = aloneFeatures(r, runs[r])
         /\ \A i \in 1..Len(runs[r].features) : runs[r].features[i].guildId = runGuild(r)
         /\ runs[r].scored = scoreThreads(runs[r].multipliers, runGuild(r), aloneFeatures(r, runs[r]), runs[r].scoredAt)
         /\ runs[r].themeAnalysis = analyze(runs[r].scored)
         /\ \A k \in 1..Len(runs[r].summaries) :
              /\ runs[r].summaries[k].key = runs[r].topScores[k].feature.key
              /\ runs[r].summaries[k].extractive =
                   summarize(runs[r].topScores[k].feature.messages, primaryTopic(runs[r].topScores[k].feature),
                             runs[r].summaries[k].topics)

\* both requests finished with features, the second having started while the first was in its loop
C17_Witness ==
  /\ \A r \in RunIds : runs[r].pc = "done" /\ runs[r].features # <<>> /\ runs[r].summaries # <<>>
  /\ \E r \in RunIds : runs[r].concurrent

\* the calls on the interaction so far all went without a messageId
onlyReplyCleanups == \A i \in 1..Len(cleanupLog.calls) : cleanupLog.calls[i].messageId = NoMessageId

\* C18: for any sequence of replyEphemeral, editEphemeral and scheduleInteractionCleanup calls
\* without messageId on one interaction, at most one cleanup timer is pending, and the reply is
\* deleted exactly once, ttlMs after the most recent call and never earlier: every deleteReply
\* comes ttlMs after the call that was the most recent one when it came (a call that threw aside),
\* and no two deleteReply come for the same most recent call.
C18_ReplyDeletedOnceAfterMostRecentCall ==
  onlyReplyCleanups =>
    /\ Cardinality(cleanupTimers.pending) <= 1
    /\ \A i \in 1..Len(cleanupLog.deleteReply) :
         cleanupLog.calls[cleanupLog.deleteReply[i].call].status # "failed" =>
           cleanupLog.deleteReply[i].at =
             cleanupLog.calls[cleanupLog.deleteReply[i].call].at + cleanupLog.calls[cleanupLog.deleteReply[i].call].ttlMs
    /\ \A i, j \in 1..Len(cleanupLog.deleteReply) :
         i # j => cleanupLog.deleteReply[i].call # cleanupLog.deleteReply[j].call

\* the part of it that the timers do guarantee: one pending timeout at most, the one of the last
\* scheduling, and a deleteReply never before the ttlMs of the last scheduling have passed
C18_OnePendingTimerOfLastScheduling ==
  /\ Cardinality(cleanupTimers.pending) <= 1
  /\ \A timeout \in cleanupTimers.pending : timeout.id = cleanupTimers.created /\ timeout.id = cleanupTimers.map
  /\ \A timeout \in cleanupTimers.pending : clock <= timeout.due

\* the subscription a finished notifyUser call went by, and when: the loaded document at the
\* eligibility check, or the stored one at the call when nothing was loaded
seenBy(call) == IF "loaded" \in DOMAIN call THEN call.loaded ELSE call.stored
seenAt(call) == IF "loaded" \in DOMAIN call THEN call.checkedAt ELSE call.calledAt
inCooldown(subscription, time) ==
  /\ subscription # Null
  /\ \E i \in 1..Len(subscription.keywords) : cooldownActive(subscription, subscription.keywords[i], time)

\* what a call that got its DM answered did to the database
deliveryWrites(call) ==
  /\ call.outcome = "sent" =>
       /\ call.result.success
       /\ \A i \in 1..Len(call.loaded.keywords) :
            /\ call.loaded.keywords[i] \in DOMAIN call.after.subscription.lastNotified
            /\ call.after.subscription.lastNotified[call.loaded.keywords[i]] = call.deliveredAt
       /\ call.after.saves = call.before.saves + 1
       /\ Len(call.after.history) = Len(call.before.history) + 1
       /\ SubSeq(call.after.history, 1, Len(call.before.history)) = call.before.history
       /\ LET record == call.after.history[Len(call.after.history)]
          IN  /\ record.success
              /\ record.threadScores = call.digest.stats.threadScores
              /\ record.topTopics = call.digest.stats.topTopics
              /\ record.clusterLabels = call.digest.stats.clusterLabels
              /\ record.tokensUsed = call.digest.stats.tokensUsed
              /\ record.costUSD = call.digest.stats.cost
  /\ call.outcome \in {"closed", "error"} =>
       /\ ~call.result.success
       /\ call.after.subscription.lastNotified = call.before.subscription.lastNotified

\* C19: notifyUser sends a digest DM only if the cooldown has passed: when a subscribed keyword
\* was notified less than cooldownHours ago, no DM is sent and the result is unsuccessful with a
\* cooldown reason; a delivered DM sets lastNotified for every keyword, saves the subscription
\* and creates exactly one DigestHistory record (success, carrying the digest's statistics); a
\* failed DM leaves lastNotified unchanged.
C19_CooldownRefusesWithCooldownReason ==
  \A c \in NotifyIds :
    notifications[c].pc = "done" =>
      /\ inCooldown(seenBy(notifications[c]), seenAt(notifications[c])) =>
           /\ notifications[c].outcome = "none"
           /\ ~notifications[c].result.success
           /\ notifications[c].result.reason.text = "Cooldown active"
      /\ deliveryWrites(notifications[c])

\* C19, amended: the cooldown reason is given when the service has a client and the subscription
\* has DMs enabled; in every case a DM is attempted only when no keyword is in its cooldown.
C19_EnabledSubscriptionRefusedForCooldown ==
  \A c \in NotifyIds :
    notifications[c].pc = "done" =>
      /\ inCooldown(seenBy(notifications[c]), seenAt(notifications[c])) =>
           /\ notifications[c].outcome = "none"
           /\ ~notifications[c].result.success
           /\ ("loaded" \in DOMAIN notifications[c] /\ notifications[c].loaded.dmEnabled) =>
                notifications[c].result.reason.text = "Cooldown active"
      /\ deliveryWrites(notifications[c])

\* one call was refused for the cooldown of the second keyword, the other delivered its DM
C19_Witness ==
  \E c, d \in NotifyIds :
    /\ notifications[c].pc = "done" /\ notifications[d].pc = "done"
    /\ notifications[c].outcome = "none"
    /\ notifications[c].result.reason.text = "Cooldown active"
    /\ notifications[c].result.reason.keyword = "energy"
    /\ notifications[d].outcome = "sent"
    /\ Len(digestHistory) = 1

\* C20: for any interleaving of schedule() calls the limiter executes at most one scheduled task
\* at any time, starts the tasks in the order of their schedule() calls, and starts two
\* consecutive tasks at least delayMs apart.
C20_OneTaskAtATimeInOrderDelayApart ==
  /\ Cardinality(limiterLog.running) <= 1
  /\ Len(limiterLog.starts) <= Len(limiterLog.scheduled)
  /\ \A i \in 1..Len(limiterLog.starts) : limiterLog.starts[i].task = limiterLog.scheduled[i]
  /\ \A i \in 1..(Len(limiterLog.starts) - 1) :
       limiterLog.starts[i + 1].at - limiterLog.starts[i].at >= limiter.delayMs

\* the default limiter has started its second task exactly delayMs after the first, and a third
\* task is queued behind the one that executes
C20_Witness ==
  /\ limiter.delayMs = DefaultDelayMs
  /\ Len(limiterLog.starts) = 2
  /\ limiterLog.starts[2].at - limiterLog.starts[1].at = DefaultDelayMs
  /\ limiterLog.running # {}
  /\ Len(limiter.queue) = 1

(***************************************************************************)
(* Properties of the greedy clustering (SpecRank)                          *)
(***************************************************************************)
\* similarity >= 0.2 between the units at two input positions, as the loop tests it
similarUnits(scores, s, j) == atLeastThreshold(cosineSimilarity(buildVector(scores[s]), buildVector(scores[j])))

\* the input positions of the seeds: cluster ids are the seed's 0-based index
seedsOf(clusters) == {clusters[c].id + 1 : c \in 1..Len(clusters)}

\* p / q < r / s for naturals with q, s > 0, by Euclid's steps (no product is formed)
RECURSIVE fractionLess(_, _, _, _)
fractionLess(p, q, r, s) ==
  IF p \div q # r \div s THEN p \div q < r \div s
  ELSE IF p % q = 0 THEN r % s # 0
  ELSE IF r % s = 0 THEN FALSE
  ELSE fractionLess(s, r % s, q, p % q)

\* whether the unit at j is strictly more similar to the unit at t than to the unit at s
moreSimilar(scores, j, s, t) ==
  LET a == cosineSimilarity(buildVector(scores[s]), buildVector(scores[j]))
      b == cosineSimilarity(buildVector(scores[t]), buildVector(scores[j]))
  IN  fractionLess(a.dot * a.dot, a.norms, b.dot * b.dot, b.norms)

\* C21: greedy clustering compares with seeds only: the unit at index j is the seed of a
\* cluster iff no earlier seed has similarity >= 0.2 with it; otherwise it is a member of the
\* cluster of the smallest-index earlier seed that has, whatever its similarity to later seeds
\* or to other members; clusters come in increasing seed index with the seed as first member.
C21_GreedyAssignmentBySeedsOnly ==
  analyzeCall.done =>
    LET scores == analyzeCall.scores
        clusters == analyzeCall.result.clusters
        seeds == seedsOf(clusters)
    IN  /\ \A j \in 1..Len(scores) :
             j \in seeds <=> ~\E s \in seeds : s < j /\ similarUnits(scores, s, j)
        /\ \A j \in (1..Len(scores)) \ seeds :
             \A c \in 1..Len(clusters) :
               scores[j] \in Range(clusters[c].members)
                 <=> /\ clusters[c].id + 1 < j
                     /\ similarUnits(scores, clusters[c].id + 1, j)
                     /\ \A s \in seeds : (s < clusters[c].id + 1) => ~similarUnits(scores, s, j)
        /\ \A c \in 1..Len(clusters) :
             /\ clusters[c].id + 1 \in 1..Len(scores)
             /\ clusters[c].members[1] = scores[clusters[c].id + 1]
             /\ c > 1 => clusters[c - 1].id < clusters[c].id

\* analyzed: a member that is strictly more similar to a later seed than to its own seed
C21_Witness ==
  /\ analyzeCall.done
  /\ \E j, s, t \in 1..Len(analyzeCall.scores) :
       /\ s < t
       /\ t < j
       /\ {s, t} \subseteq seedsOf(analyzeCall.result.clusters)
       /\ j \notin seedsOf(analyzeCall.result.clusters)
       /\ \E c \in 1..Len(analyzeCall.result.clusters) :
            /\ analyzeCall.result.clusters[c].id + 1 = s
            /\ analyzeCall.scores[j] \in Range(analyzeCall.result.clusters[c].members)
       /\ moreSimilar(analyzeCall.scores, j, s, t)

(***************************************************************************)
(* Properties of the sentence selection (SpecSum)                          *)
(***************************************************************************)
\* the orders in which the selected indices can have been picked
pickOrders(selected) ==
  {order \in [1..Len(selected) -> Range(selected)] : \A a, b \in 1..Len(selected) : order[a] = order[b] => a = b}

\* the pick of round r maximizes the mmr value among the sentences not picked before, and no
\* sentence with the same mmr value has a higher raw score
bestOfRound(docs, scores, order, r) ==
  LET before == [k \in 1..(r - 1) |-> order[k]]
      mmr(c) == mmrValue(docs, scores, before, c)
  IN  \A c \in (1..Len(scores)) \ Range(before) :
        /\ mmr(c) <= mmr(order[r])
        /\ mmr(c) = mmr(order[r]) => scores[c] <= scores[order[r]]

\* C22: selectByMMR over N scored sentences returns min(4, N) distinct sentence indices, picked
\* round by round: each pick maximizes 0.72 x relevance - 0.28 x (largest Jaccard similarity to
\* the sentences picked before) among the sentences not yet picked, ties going to the higher raw
\* score; the first pick has maximal raw score, and there are at most 4 rounds.
C22_SelectionIsGreedyMMR ==
  (lastCall.done /\ lastCall.sentences > 0) =>
    /\ Len(lastCall.scores) = lastCall.sentences
    /\ Len(lastCall.selected) = Min2(4, lastCall.sentences)
    /\ Range(lastCall.selected) \subseteq 1..lastCall.sentences
    /\ Cardinality(Range(lastCall.selected)) = Len(lastCall.selected)
    /\ \E order \in pickOrders(lastCall.selected) :
         /\ \A c \in 1..lastCall.sentences : lastCall.scores[c] <= lastCall.scores[order[1]]
         /\ \A r \in 1..Len(order) :
              bestOfRound(buildSentenceDocs(lastCall.messages), lastCall.scores, order, r)

\* summarized: five sentences, and a sentence left out although its raw score is higher than
\* that of a selected one
C22_Witness ==
  /\ lastCall.done
  /\ lastCall.sentences > 4
  /\ \E i \in (1..lastCall.sentences) \ Range(lastCall.selected) :
       \E j \in Range(lastCall.selected) : lastCall.scores[j] < lastCall.scores[i]

(***************************************************************************)
(* Properties of the length enforcement (SpecSum)                          *)
(***************************************************************************)
\* the summed length of the first k selected sentences, as written by their authors
selectedLength(docs, selected, k) == SumSeq([i \in 1..k |-> Len(docs[selected[i]].original)])

\* the position in the message list of the message with the id
messageIndex(messages, id) == CHOOSE m \in 1..Len(messages) : messages[m].id = id

\* C23: length enforcement keeps a prefix of the selected sentences taken in position order:
\* the first is kept whatever its length, every further kept one leaves the running total of
\* original lengths at or below 380, and the first one that would go above it ends the
\* keeping, so no later selected sentence is kept; the bullets are in message order.
C23_KeepsPrefixInPositionOrder ==
  (lastCall.done /\ lastCall.sentences > 0) =>
    LET docs == buildSentenceDocs(lastCall.messages)
        selected == lastCall.selected
        kept == lastCall.keptPositions
        ids == lastCall.result.selectedIds
    IN  /\ \A k \in 1..(Len(selected) - 1) : selected[k] < selected[k + 1]
        /\ Len(kept) >= 1
        /\ Len(kept) <= Len(selected)
        /\ \A k \in 1..Len(kept) : kept[k] = selected[k] - 1
        /\ \A k \in 2..Len(kept) : selectedLength(docs, selected, k) <= 380
        /\ Len(kept) < Len(selected) => selectedLength(docs, selected, Len(kept) + 1) > 380
        /\ ids = [k \in 1..Len(kept) |-> docs[selected[k]].id]
        /\ \A k \in 1..(Len(ids) - 1) :
             messageIndex(lastCall.messages, ids[k]) <= messageIndex(lastCall.messages, ids[k + 1])

\* summarized: a selected sentence was rejected for length, and a selected sentence after it,
\* which would have fitted, is not kept either
C23_Witness ==
  /\ lastCall.done
  /\ lastCall.sentences > 0
  /\ Len(lastCall.keptPositions) >= 1
  /\ \E k \in (Len(lastCall.keptPositions) + 2)..Len(lastCall.selected) :
       selectedLength(buildSentenceDocs(lastCall.messages), lastCall.selected, Len(lastCall.keptPositions))
         + Len(buildSentenceDocs(lastCall.messages)[lastCall.selected[k]].original) <= 380

(***************************************************************************)
(* Properties of the topic counter (SpecRank)                              *)
(***************************************************************************)
\* C24: TopicCounterService.count returns at most 3 entries of distinct slugs in non-increasing
\* order of count, each count being the sum of keywordHits + 2 x bigramHits over every topic
\* hit with that slug in every scored unit; no slug left out has a strictly larger total than
\* a returned one, and an input without topic hits yields the empty list.
C24_TopThreeTopicTotals ==
  analyzeCall.done =>
    LET topics == analyzeCall.topics
        slugs == topicSlugs(analyzeCall.scores)
    IN  /\ Len(topics) = Min2(3, Cardinality(slugs))
        /\ \A k \in 1..Len(topics) :
             /\ topics[k].slug \in slugs
             /\ topics[k].count = topicWeight(analyzeCall.scores, topics[k].slug)
             /\ \A l \in 1..Len(topics) : topics[l].slug = topics[k].slug => l = k
             /\ k > 1 => topics[k - 1].count >= topics[k].count
             /\ \A s \in slugs \ {topics[l].slug : l \in 1..Len(topics)} :
                  topicWeight(analyzeCall.scores, s) <= topics[k].count
        /\ slugs = {} => topics = <<>>

\* counted: units that hit four topics or more, one with a bigram hit, the returned counts not
\* all equal, and a topic left out whose total is below every returned count
C24_Witness ==
  /\ analyzeCall.done
  /\ Cardinality(topicSlugs(analyzeCall.scores)) > 3
  /\ Len(analyzeCall.topics) = 3
  /\ analyzeCall.topics[1].count > analyzeCall.topics[3].count
  /\ \E i \in 1..Len(analyzeCall.scores) :
       \E h \in 1..Len(analyzeCall.scores[i].feature.topicHits) :
         analyzeCall.scores[i].feature.topicHits[h].bigramHits > 0
  /\ \E s \in topicSlugs(analyzeCall.scores) :
       topicWeight(analyzeCall.scores, s) < analyzeCall.topics[3].count

(***************************************************************************)
(* Properties of the extracted features (SpecFeat)                         *)
(***************************************************************************)
\* C25: feature extraction conserves the query's answer: every message is counted in exactly
\* one feature and the messageCounts add up to the number of messages; for every feature
\* 1 <= uniqueParticipants <= messageCount, linkCount is the sum of its messages' link counts,
\* hasLinks is true exactly when linkCount >= 2, and firstMessageAt <= lastMessageAt are the
\* least and the greatest timestamp of its messages.
C25_FeaturesConserveMessages ==
  (fetchCall.done /\ ~fetchCall.threw) =>
    LET messages == fetchCall.messages
        result == fetchCall.result
    IN  /\ SumSeq([f \in 1..Len(result) |-> result[f].messageCount]) = Len(messages)
        /\ \A i \in 1..Len(messages) :
             Cardinality({f \in 1..Len(result) : result[f].key = keyOf(messages[i])}) = 1
        /\ \A f \in 1..Len(result) :
             LET unit == unitMessages(messages, result[f].key)
             IN  /\ result[f].messageCount = Len(unit)
                 /\ result[f].uniqueParticipants = Cardinality({unit[k].authorId : k \in 1..Len(unit)})
                 /\ 1 <= result[f].uniqueParticipants
                 /\ result[f].uniqueParticipants <= result[f].messageCount
                 /\ result[f].linkCount = SumSeq([k \in 1..Len(unit) |-> unit[k].linkCount])
                 /\ result[f].hasLinks <=> result[f].linkCount >= 2
                 /\ result[f].firstMessageAt <= result[f].lastMessageAt
                 /\ \E k \in 1..Len(unit) : unit[k].timestamp = result[f].firstMessageAt
                 /\ \E k \in 1..Len(unit) : unit[k].timestamp = result[f].lastMessageAt
                 /\ \A k \in 1..Len(unit) :
                      /\ result[f].firstMessageAt <= unit[k].timestamp
                      /\ unit[k].timestamp <= result[f].lastMessageAt

\* extracted: a unit of two messages by one author with one link between them, and a unit
\* with two links
C25_Witness ==
  /\ fetchCall.done
  /\ \E f, g \in 1..Len(fetchCall.result) :
       /\ fetchCall.result[f].messageCount >= 2
       /\ fetchCall.result[f].uniqueParticipants < fetchCall.result[f].messageCount
       /\ fetchCall.result[f].linkCount = 1
       /\ ~fetchCall.result[f].hasLinks
       /\ fetchCall.result[f].firstMessageAt < fetchCall.result[f].lastMessageAt
       /\ fetchCall.result[g].linkCount >= 2
       /\ fetchCall.result[g].hasLinks

(***************************************************************************)
(* Properties of the rate limiter's queue (SpecLimiterFair)                *)
(***************************************************************************)
\* the settlements of the promise that schedule() returned for the task
settlementsOf(task) == {i \in 1..Len(limiterLog.settled) : limiterLog.settled[i].task = task}

\* no task is started twice, and the promise of a task settles at most once, after the task
\* was started, resolved when the task resolves and rejected when it rejects
executedAtMostOnce ==
  \A t \in 1..MaxTasks :
    /\ Cardinality({i \in 1..Len(limiterLog.starts) : limiterLog.starts[i].task = t}) <= 1
    /\ Cardinality(settlementsOf(t)) <= 1
    /\ \A i \in settlementsOf(t) :
         /\ \E j \in 1..Len(limiterLog.starts) : limiterLog.starts[j].task = t
         /\ limiterLog.settled[i].outcome = "resolved" <=> limiterLog.behaviour[t] = "resolves"

\* every scheduled task has been started and settled, and the limiter is at rest
allSettled ==
  /\ \A t \in Range(limiterLog.scheduled) :
       /\ \E j \in 1..Len(limiterLog.starts) : limiterLog.starts[j].task = t
       /\ settlementsOf(t) # {}
  /\ limiter.queue = <<>>
  /\ ~limiter.processing

deliveredCalls == {c \in NotifyIds : notifications[c].pc = "done" /\ notifications[c].outcome = "sent"}

\* C27: a user never receives two digest DMs for the same subscription within one cooldown
\* window, also when two deliveries for that user overlap: any two delivered DMs of the
\* subscription are at least cooldownHours apart.
C27_NoSecondDmWithinCooldown ==
  \A c, d \in deliveredCalls :
    c # d =>
      \/ notifications[d].deliveredAt - notifications[c].deliveredAt >= notifications[c].loaded.cooldownHours * HourMs
      \/ notifications[c].deliveredAt - notifications[d].deliveredAt >= notifications[d].loaded.cooldownHours * HourMs


(***************************************************************************)
(* Properties of the reminder service (SpecReminder)                       *)
(***************************************************************************)
\* the deliver calls made for reminder i: the handled entries of the passes, and the passes
\* that await its delivery
deliveriesOf(i) ==
  {pk \in (1..MaxTicks) \X (0..BATCH_LIMIT) :
     /\ pk[1] <= Len(reminderCalls.passes)
     /\ \/ pk[2] \in 1..Len(reminderCalls.passes[pk[1]].handled) /\ reminderCalls.passes[pk[1]].handled[pk[2]].reminder = i
        \/ pk[2] = 0 /\ reminderCalls.passes[pk[1]].pc = "delivering" /\ reminderCalls.passes[pk[1]].current = i}

passesRunning == {p \in 1..Len(reminderCalls.passes) : reminderCalls.passes[p].pc # "returned"}

\* no reminder is handed to deliver twice, and one that was is not pending
deliveredAtMostOnce ==
  \A i \in 1..Len(reminderStore) :
    /\ Cardinality(deliveriesOf(i)) <= 1
    /\ reminderStore[i].status = "pending" => deliveriesOf(i) = {}

\* a pass handles at most BATCH_LIMIT reminders, in ascending remindAt order
passesInBatchesInOrder ==
  \A p \in 1..Len(reminderCalls.passes) :
    LET handled == reminderCalls.passes[p].handled
    IN  /\ Len(handled) <= BATCH_LIMIT
        /\ reminderCalls.passes[p].processed <= Len(handled)
        /\ \A k \in 1..(Len(handled) - 1) : handled[k].remindAt <= handled[k + 1].remindAt
        /\ \A k \in 1..Len(handled) : handled[k].remindAt = reminderStore[handled[k].reminder].remindAt

\* a step changes the status of at most one reminder: a due pending one goes to processing in
\* the step that hands it to a pass, a processing one to sent or failed
claimedThenSettled ==
  /\ \A i \in 1..Len(reminderStore) :
       reminderStore'[i].status # reminderStore[i].status =>
         \/ /\ reminderStore[i].status = "pending" /\ reminderStore'[i].status = "processing"
            /\ reminderStore[i].remindAt <= clock
            /\ \E p \in passesRunning : reminderCalls.passes[p].pc = "claiming" /\ reminderCalls'.passes[p].pc = "delivering"
                                        /\ reminderCalls'.passes[p].current = i
         \/ /\ reminderStore[i].status = "processing" /\ reminderStore'[i].status \in {"sent", "failed"}
            /\ (reminderStore'[i].status = "sent") = (\E pk \in deliveriesOf(i) : pk[2] > 0 /\ reminderCalls.passes[pk[1]].handled[pk[2]].result.success)
  /\ Cardinality({i \in 1..Len(reminderStore) : reminderStore'[i].status # reminderStore[i].status}) <= 1

\* the call of a poll tick that fires while a pass is running returns at once
tickDuringPassDoesNothing ==
  (Len(reminderCalls'.passes) > Len(reminderCalls.passes) /\ passesRunning # {}) =>
    /\ reminderCalls'.passes[Len(reminderCalls'.passes)] = passSkipped
    /\ reminderStore' = reminderStore
    /\ reminderService'.processing = reminderService.processing
    /\ \A p \in 1..Len(reminderCalls.passes) : reminderCalls'.passes[p] = reminderCalls.passes[p]

\* C28: each reminder is delivered at most once: a due reminder is claimed by an atomic
\* pending -> processing transition, then ends as sent or failed and never returns to pending;
\* a poll tick that fires while a processing pass is still running does nothing, and one pass
\* handles at most 10 reminders, in ascending remindAt order.
C28_RemindersDeliveredAtMostOnce ==
  /\ [](deliveredAtMostOnce /\ passesInBatchesInOrder)
  /\ [][claimedThenSettled /\ tickDuringPassDoesNothing]_vars

\* the backlog of twelve: the first pass handled ten, the tick during it was skipped, the third
\* tick handled the two left, and the reminders ended as sent or failed
C28_Witness ==
  /\ Len(reminderCalls.passes) = 3
  /\ Len(reminderCalls.passes[1].handled) = BATCH_LIMIT
  /\ ~reminderCalls.passes[2].entered
  /\ Len(reminderCalls.passes[3].handled) = 2
  /\ passesRunning = {}
  /\ \A i \in 1..Len(reminderStore) : reminderStore[i].status \in {"sent", "failed"}
  /\ \E i, j \in 1..Len(reminderStore) : reminderStore[i].status = "sent" /\ reminderStore[j].status = "failed"
  /\ \E k \in 1..(BATCH_LIMIT - 1) : reminderCalls.passes[1].handled[k].remindAt = reminderCalls.passes[1].handled[k + 1].remindAt


(***************************************************************************)
(* Properties of the summary cache (SpecCache)                             *)
(***************************************************************************)
\* the set() calls made for the keyword and the set of message ids of a get() call
storedFor(got) ==
  {i \in 1..Len(cacheLog.sets) :
     /\ cacheLog.sets[i].keyword = got.keyword
     /\ Range(cacheLog.sets[i].messageIds) = Range(got.messageIds)}

\* the time at which what a set() call stored expires: max(6 hours, ttlMs) after the call
expiryOf(stored) ==
  stored.at + (IF stored.ttlMs # Undefined /\ stored.ttlMs.ms > 6 * 60 * 60 * 1000 THEN stored.ttlMs.ms ELSE 6 * 60 * 60 * 1000)

lastStoredFor(got) == cacheLog.sets[CHOOSE i \in storedFor(got) : \A j \in storedFor(got) : j <= i]

\* C29: an AI summary stored by SummaryCache.set is returned by get for the same keyword and
\* the same set of message ids (in any order) until max(6 hours, requested ttlMs) has elapsed
\* since it was stored, and is never returned at or after that expiry (get deletes it and
\* returns null), whether or not the hourly cleanup has run.
C29_StoredSummaryReturnedUntilExpiry ==
  cacheLog.got # Null =>
    IF storedFor(cacheLog.got) = {} THEN cacheLog.got.result = Null
    ELSE IF cacheLog.got.at < expiryOf(lastStoredFor(cacheLog.got))
         THEN /\ cacheLog.got.result # Null
              /\ cacheLog.got.result.summary = lastStoredFor(cacheLog.got).summary
              /\ cacheLog.got.result.cachedAt = lastStoredFor(cacheLog.got).at
         ELSE /\ cacheLog.got.result = Null
              /\ \A k \in DOMAIN summaryCache : summaryCache[k].summary # lastStoredFor(cacheLog.got).summary

\* a summary stored with a ttl of 24 hours for the ids 12, 5 is returned for 5, 12 six hours
\* later, after the entry of another set() call is gone from the cache
C29_Witness ==
  /\ cacheLog.got # Null
  /\ cacheLog.got.result # Null
  /\ cacheLog.got.messageIds # lastStoredFor(cacheLog.got).messageIds
  /\ cacheLog.got.at >= lastStoredFor(cacheLog.got).at + 6 * 60 * 60 * 1000
  /\ Len(cacheLog.sets) = MaxSets
  /\ Cardinality(storedFor(cacheLog.got)) = 1
  /\ Cardinality(DOMAIN summaryCache) = 1


(***************************************************************************)
(* Properties of the cron manager (SpecCron)                               *)
(***************************************************************************)
\* the running tasks that were scheduled for a guild
runningTasks(guildId) == {t \in 1..Len(cronTasks) : cronTasks[t].guildId = guildId /\ cronTasks[t].running}

\* the tasks the jobs map holds
mappedTasks == {cronJobs[g].task : g \in {h \in Guilds : cronJobs[h] # Null}}

\* C30: after any sequence of CronManager.updateJob, cancelJob and shutdown calls there is at
\* most one running scheduled task per guild (the previous task is stopped before its
\* replacement is registered and every task not in the jobs map is stopped); updateJob with an
\* invalid cron expression throws and leaves the guild's existing job running and its recorded
\* cron and timezone unchanged.
C30_OneRunningTaskPerGuild ==
  /\ \A g \in Guilds : Cardinality(runningTasks(g)) <= 1
  /\ \A t \in 1..Len(cronTasks) : t \notin mappedTasks => ~cronTasks[t].running
  /\ \A g \in Guilds : cronJobs[g] # Null =>
       /\ runningTasks(g) = {cronJobs[g].task}
       /\ cronTasks[cronJobs[g].task].cron = cronJobs[g].cron
       /\ cronTasks[cronJobs[g].task].timezone = cronJobs[g].timezone
  /\ (cronLog # Null /\ cronLog.call = "updateJob") =>
       IF cronLog.cron \in InvalidExpressions
       THEN /\ cronLog.threw
            /\ cronJobs = cronLog.before.jobs
            /\ cronTasks = cronLog.before.tasks
       ELSE /\ ~cronLog.threw
            /\ cronJobs[cronLog.guildId] # Null
            /\ cronJobs[cronLog.guildId].cron = cronLog.cron
            /\ cronJobs[cronLog.guildId].timezone = cronLog.timezone
            /\ cronJobs[cronLog.guildId].task = Len(cronLog.before.tasks) + 1

\* a guild's job was replaced (its first task is stopped, its second runs), the other guild's
\* job was cancelled, and an updateJob with an invalid expression has just thrown and left the
\* running job as it was
C30_Witness ==
  /\ cronLog # Null
  /\ cronLog.call = "updateJob"
  /\ cronLog.cron \in InvalidExpressions
  /\ cronLog.threw
  /\ cronJobs[cronLog.guildId] # Null
  /\ cronJobs[cronLog.guildId].task = 2
  /\ cronTasks[1].guildId = cronLog.guildId
  /\ ~cronTasks[1].running
  /\ cronTasks[1].cron # cronTasks[2].cron
  /\ Len(cronTasks) = MaxCronTasks
  /\ \E g \in Guilds : cronJobs[g] = Null /\ cronTasks[3].guildId = g

====
